---- MODULE Spec2Model ----
(***************************************************************************)
(* Model of the product-search, image-analysis, media-processing and       *)
(* content-normalisation services of the landing page generator.           *)
(*                                                                         *)
(* Strings are sequences of one-character strings, so that regular         *)
(* expression replacement, lower-casing and substring tests are computed   *)
(* character by character as the code computes them.  Arabic letters are   *)
(* written by code point ("U+0633").  An optional value is a sequence of   *)
(* length 0 (undefined) or 1.  Math.random() is a draw from RandomSamples, *)
(* in thousandths.                                                         *)
(***************************************************************************)
EXTENDS Integers, Sequences, FiniteSets, TLC

VARIABLES
  op,           \* the service method the caller invoked in this run
  imageUrls,    \* analyzeImages / processMedia: the image URLs passed in
  analysesIn,   \* processMedia: the analyses passed in
  branches,     \* the promises handed to Promise.allSettled, by array index
  products,     \* searchProduct: the local `products` after the forEach
  response,     \* the APIResponse the method resolved with (None while running)
  text,         \* parseAdvancedAIResponse: the raw model output (tokens)
  product,      \* parseAdvancedAIResponse: the fallback product
  options,      \* parseAdvancedAIResponse: the generation options
  media,        \* parseAdvancedAIResponse: the processed media
  rng,          \* the values Math.random() returns, in call order (cycled)
  parsed,       \* what parseAdvancedAIResponse did (None before the call)
  openai,       \* generateContent: the key check and the outcome of the request
  contentResponse, \* generateContent: the APIResponse resolved with (None before)
  productTitle, \* validateProductMatch: the title
  imageAnalyses,\* validateProductMatch: the analyses
  matchScore,   \* validateProductMatch: the resolved score (None before)
  semanticScores, \* validateProductMatch: semanticScore of each counted analysis
  productName,  \* fetchFromSerpApi: the name searched for
  serpResponse, \* fetchFromSerpApi: the key check and what axios.get settled to
  bestSimilarity, \* fetchFromSerpApi: the local after the loop (None before)
  productResult, \* fetchFromSerpApi: the ProductResult resolved with (None before)
  rawText,      \* normalizeText: the argument
  normalized,   \* normalizeText: the results of the calls made so far
  pageUrl,      \* generateLandingPage: the url
  pc,           \* generateLandingPage: the step to run next
  errors,       \* generateLandingPage: the local `errors`
  warnings,     \* generateLandingPage: the local `warnings`
  locals,       \* generateLandingPage: the results of the steps run so far
  generationResult, \* generateLandingPage: the GenerationResult (None before)
  firstSettled, \* searchProduct: the index of the provider that settled first (None before)
  calls,        \* the calls a method made to its collaborators, in order
  featureText,  \* extractFeatures: the text scanned
  features,     \* extractFeatures: the list returned (None before)
  apiKeys,      \* the API keys the service was constructed with
  imageAnalysis, \* analyzeImage: the APIResponse resolved with (None before)
  maxWaitTime,  \* waitForRunCompletion: the maxWaitTime argument, in ms
  clock,        \* waitForRunCompletion: Date.now() - startTime, in ms
  runResult,    \* waitForRunCompletion: how the call settled (None while polling)
  apiKeyValues, \* ApiKeySettings: the state apiKeyValues (the inputs shown)
  savedKeys,    \* ApiKeySettings: the state savedKeys
  localStorage  \* ApiKeySettings: the browser's localStorage

serviceVars == <<op, imageUrls, analysesIn, branches, products, response>>
contentVars == <<text, product, options, media, rng, parsed, openai, contentResponse>>
validateVars == <<productTitle, imageAnalyses, matchScore, semanticScores>>
matcherVars == <<productName, serpResponse, bestSimilarity, productResult, rawText, normalized>>
pageVars == <<pageUrl, pc, errors, warnings, locals, generationResult>>
featureVars == <<featureText, features>>
apifyVars == <<maxWaitTime, clock, runResult>>
settingsVars == <<apiKeyValues, savedKeys, localStorage>>
toolVars == <<featureVars, apiKeys, imageAnalysis, apifyVars, settingsVars>>
vars == <<op, imageUrls, analysesIn, branches, products, response, text, product, options,
          media, rng, parsed, openai, contentResponse, productTitle, imageAnalyses, matchScore, semanticScores,
          productName, serpResponse, bestSimilarity, productResult, rawText, normalized,
          pageUrl, pc, errors, warnings, locals, generationResult,
          firstSettled, calls, featureText, features, apiKeys, imageAnalysis,
          maxWaitTime, clock, runResult, apiKeyValues, savedKeys, localStorage>>

--------------------------------------------------------------------------
(* Bounds of the model *)

MaxResults == 2     \* shopping_results entries SerpAPI returns
MaxImages == 2      \* image URLs of one call
MaxTextLen == 2     \* tokens of one raw model output
MaxAnalyses == 2    \* analyses handed to validateProductMatch
MaxStringLen == 4   \* characters of one argument of normalizeText
MaxWords == 2       \* words of one text handed to extractFeatures
MaxPolls == 3       \* status checks that fit into the maxWaitTime of one call

--------------------------------------------------------------------------
(* JavaScript values *)

None == <<>>
Some(x) == <<x>>
IsSome(o) == o # <<>>
Get(o) == o[1]
\* a || b on optional values whose present values are all truthy
OrElse(o, d) == IF IsSome(o) THEN Get(o) ELSE d

Range(s) == {s[i] : i \in 1..Len(s)}
SeqsUpTo(S, n) == UNION {[1..k -> S] : k \in 0..n}

RECURSIVE Concat(_)
Concat(ss) == IF ss = <<>> THEN <<>> ELSE Head(ss) \o Concat(Tail(ss))

RandomSamples == {0, 500, 998}
\* Math.floor(Math.random() * n) for the draw r
RandomInt(r, n) == (r * n) \div 1000

UpperChars == <<"A","B","C","D","E","F","G","H","I","J","K","L","M",
                "N","O","P","Q","R","S","T","U","V","W","X","Y","Z">>
LowerChars == <<"a","b","c","d","e","f","g","h","i","j","k","l","m",
                "n","o","p","q","r","s","t","u","v","w","x","y","z">>
DigitChars == {"0","1","2","3","4","5","6","7","8","9"}
SpaceChars == {" ", "\t"}
ArabicChars == {"U+0633", "U+0647"}

ToLowerChar(c) ==
  IF \E i \in 1..26 : UpperChars[i] = c
  THEN LowerChars[CHOOSE i \in 1..26 : UpperChars[i] = c]
  ELSE c
toLowerCase(s) == [i \in 1..Len(s) |-> ToLowerChar(s[i])]

\* s.replace(/[^...]/g, ''): drop every character outside Keep
RemoveOutside(s, Keep) == SelectSeq(s, LAMBDA c : c \in Keep)

\* the character class \w of a JavaScript regular expression
WordChars == Range(UpperChars) \cup Range(LowerChars) \cup DigitChars \cup {"_"}

--------------------------------------------------------------------------
(* ProductSearchService *)

Providers == <<"SerpAPI", "Amazon", "eBay", "AliExpress">>

Pending == [status |-> "pending"]
Rejected(reason) == [status |-> "rejected", reason |-> reason]
Fulfilled(value) == [status |-> "fulfilled", value |-> value]

\* Titles the shopping results carry
TitleAb == <<"A","b">>
TitleAbBang == <<"a","b","!">>
TitleSeen == <<"U+0633">>
TitleHeh == <<"U+0647">>
UnknownProduct == <<"U","n","k","n","o","w","n"," ","P","r","o","d","u","c","t">>

ItemTitles == {None, Some(TitleAb), Some(TitleAbBang), Some(TitleSeen), Some(TitleHeh)}
\* <<rating in thousandths, reviews>> as the API sends them
ItemScores == {<<Some(5000), Some(1000)>>, <<Some(4900), Some(1)>>, <<None, None>>}

\* One entry of data.shopping_results
ShoppingItems ==
  {[product_id |-> None, title |-> t, price |-> None, rating |-> s[1], reviews |-> s[2]] :
     t \in ItemTitles, s \in ItemScores}

DigitOf(d) == CASE d = 0 -> "0" [] d = 1 -> "1" [] d = 2 -> "2" [] d = 3 -> "3"
                [] d = 4 -> "4" [] d = 5 -> "5" [] d = 6 -> "6" [] d = 7 -> "7"
                [] d = 8 -> "8" [] d = 9 -> "9"
\* Number.prototype.toString() of a non-negative integer
RECURSIVE IntToString(_)
IntToString(n) == IF n < 10 THEN <<DigitOf(n)>>
                  ELSE IntToString(n \div 10) \o <<DigitOf(n % 10)>>

\* The ProductData fields the modelled operations read
MapShoppingResult(item) ==
  [ id          |-> OrElse(item.product_id, "serp_"),
    title       |-> IF IsSome(item.title) /\ Get(item.title) # <<>>
                    THEN Get(item.title) ELSE UnknownProduct,
    price       |-> OrElse(item.price, <<"$","0",".","0","0">>),
    originalPrice |-> None,
    rating      |-> OrElse(item.rating, 0),
    reviewCount |-> OrElse(item.reviews, 0) ]

\* What the promise of searchWithSerpAPI can settle to
SerpAPIOutcomes ==
  {Rejected("SerpAPI key not configured"), Rejected("SerpAPI search failed")}
  \cup {Fulfilled([success |-> TRUE,
                   data |-> [i \in 1..Len(items) |-> MapShoppingResult(items[i])]]) :
          items \in SeqsUpTo(ShoppingItems, MaxResults)}

\* searchAmazon, searchEbay, searchAliExpress: missing key, or the empty stub
StubOutcomes(name) ==
  {Rejected(name), Fulfilled([success |-> TRUE, data |-> <<>>])}

ProviderOutcomes(i) ==
  CASE i = 1 -> SerpAPIOutcomes
    [] i = 2 -> StubOutcomes("Amazon API key not configured")
    [] i = 3 -> StubOutcomes("eBay API key not configured")
    [] i = 4 -> StubOutcomes("AliExpress API key not configured")

\* normalizeText of the matcher module:
\* toLowerCase, replace(/[^a-z0-9\u0621-\u064A\s]/gi, ""), replace(/\s+/g, " "), trim
\* Variant: the Arabic range left out of the character class
NormalizeKeepAsciiOnly ==
  Range(LowerChars) \cup Range(UpperChars) \cup DigitChars \cup SpaceChars

NormalizeKeep ==
  Range(LowerChars) \cup Range(UpperChars) \cup DigitChars \cup ArabicChars \cup SpaceChars

RECURSIVE DropLeadingSpaces(_)
DropLeadingSpaces(s) ==
  IF s # <<>> /\ Head(s) \in SpaceChars THEN DropLeadingSpaces(Tail(s)) ELSE s

\* s.replace(/\s+/g, " ")
RECURSIVE CollapseSpaces(_)
CollapseSpaces(s) ==
  IF s = <<>> THEN <<>>
  ELSE IF Head(s) \in SpaceChars
       THEN <<" ">> \o CollapseSpaces(DropLeadingSpaces(Tail(s)))
       ELSE <<Head(s)>> \o CollapseSpaces(Tail(s))

RECURSIVE DropTrailingSpaces(_)
DropTrailingSpaces(s) ==
  IF s # <<>> /\ s[Len(s)] \in SpaceChars
  THEN DropTrailingSpaces(SubSeq(s, 1, Len(s) - 1)) ELSE s

trim(s) == DropTrailingSpaces(DropLeadingSpaces(s))

\* Variant: special characters removed after the spaces were collapsed and trimmed
normalizeTextRemoveLast(s) ==
  RemoveOutside(trim(CollapseSpaces(toLowerCase(s))), NormalizeKeep)

normalizeText(s) ==
  trim(CollapseSpaces(RemoveOutside(toLowerCase(s), NormalizeKeep)))

\* product.title.toLowerCase().replace(/[^\w\s]/g, '')
normalizedTitle(title) == RemoveOutside(toLowerCase(title), WordChars \cup SpaceChars)

\* Math.log(n) in thousandths, for the review counts of the model
LogMilli(n) == CASE n = 1 -> 0
                 [] n = 2 -> 693
                 [] n = 1001 -> 6909
\* a.rating * Math.log(a.reviewCount + 1)
score(p) == p.rating * LogMilli(p.reviewCount + 1)

\* The for-loop of validateAndDeduplicateProducts
RECURSIVE UniqueProducts(_, _, _)
UniqueProducts(ps, seenTitles, uniqueProducts) ==
  IF ps = <<>> THEN uniqueProducts
  ELSE LET t == normalizedTitle(Head(ps).title) IN
       IF t \notin seenTitles
       THEN UniqueProducts(Tail(ps), seenTitles \cup {t}, Append(uniqueProducts, Head(ps)))
       ELSE UniqueProducts(Tail(ps), seenTitles, uniqueProducts)

\* Variant: the operands of the subtraction swapped
compareScoreAscending(a, b) == score(a) - score(b)

\* compareFn of the sort: negative when a goes first
compareScore(a, b) == score(b) - score(a)

\* Array.prototype.sort is stable: x goes after every element it does not precede
RECURSIVE InsertStable(_, _)
InsertStable(sorted, x) ==
  IF sorted = <<>> THEN <<x>>
  ELSE IF compareScore(Head(sorted), x) > 0
       THEN <<x>> \o sorted
       ELSE <<Head(sorted)>> \o InsertStable(Tail(sorted), x)

RECURSIVE SortByScore(_)
SortByScore(ps) ==
  IF ps = <<>> THEN <<>>
  ELSE InsertStable(SortByScore(SubSeq(ps, 1, Len(ps) - 1)), ps[Len(ps)])

validateAndDeduplicateProducts(ps) == SortByScore(UniqueProducts(ps, {}, <<>>))

productNames ==
  << <<"P","r","e","m","i","u","m"," ","W","i","r","e","l","e","s","s"," ","H","e","a","d","p","h","o","n","e","s">>,
     <<"S","m","a","r","t"," ","F","i","t","n","e","s","s"," ","T","r","a","c","k","e","r">>,
     <<"E","c","o","-","F","r","i","e","n","d","l","y"," ","W","a","t","e","r"," ","B","o","t","t","l","e">>,
     <<"P","r","o","f","e","s","s","i","o","n","a","l"," ","C","a","m","e","r","a"," ","L","e","n","s">>,
     <<"E","r","g","o","n","o","m","i","c"," ","O","f","f","i","c","e"," ","C","h","a","i","r">>,
     <<"P","o","r","t","a","b","l","e"," ","B","l","u","e","t","o","o","t","h"," ","S","p","e","a","k","e","r">>,
     <<"S","t","a","i","n","l","e","s","s"," ","S","t","e","e","l"," ","W","a","t","c","h">>,
     <<"O","r","g","a","n","i","c"," ","S","k","i","n","c","a","r","e"," ","S","e","t">> >>
generateMockProduct(rName, rPrice, rOriginal, rRating, rReviews) ==
  LET price == RandomInt(rPrice, 200) + 50 IN
  [ id          |-> "mock_",
    title       |-> productNames[RandomInt(rName, Len(productNames)) + 1],
    price       |-> <<"$">> \o IntToString(price),
    originalPrice |-> Some(<<"$">> \o IntToString(price + RandomInt(rOriginal, 50) + 20)),
    rating      |-> 4500 + rRating \div 2,
    reviewCount |-> RandomInt(rReviews, 1000) + 100 ]

\* Variant: resumes as soon as one promise has settled (Promise.race)
AnySettled(results) ==
  Len(results) = 0 \/ \E i \in 1..Len(results) : results[i].status # "pending"

\* await Promise.allSettled([...]) resumes when no promise is pending
AllSettled(results) == \A i \in 1..Len(results) : results[i].status # "pending"

\* Variant: one failed provider empties the list
CollectProductsUnlessAnyFailed(results) ==
  IF \E i \in 1..Len(results) : results[i].status = "rejected" THEN <<>>
  ELSE Concat([i \in 1..Len(results) |->
                 IF results[i].value.success THEN results[i].value.data ELSE <<>>])

\* Variant: only the provider that settled first is read
CollectProductsOfFirstSettled(results) ==
  IF IsSome(firstSettled)
     /\ results[Get(firstSettled)].status = "fulfilled"
     /\ results[Get(firstSettled)].value.success
  THEN results[Get(firstSettled)].value.data ELSE <<>>

\* The forEach over searchResults: the candidates of every successful provider
CollectProducts(results) ==
  Concat([i \in 1..Len(results) |->
            IF results[i].status = "fulfilled" /\ results[i].value.success
            THEN results[i].value.data ELSE <<>>])

CollectErrors(results) ==
  Concat([i \in 1..Len(results) |->
            IF results[i].status = "fulfilled" /\ results[i].value.success
            THEN <<>>
            ELSE <<[source |-> Providers[i],
                    error |-> IF results[i].status = "rejected"
                              THEN results[i].reason ELSE results[i].value.error]>>])

\* Variant: no mock product when nothing was found
SearchProductResponseNoMock(results, found, mock) ==
  [success |-> TRUE, data |-> validateAndDeduplicateProducts(found),
   usage |-> [requests |-> Len(results), tokens |-> Len(found) * 100]]

SearchProductResponse(results, found, mock) ==
  IF Len(found) = 0
  THEN [success |-> TRUE, data |-> <<mock>>, usage |-> [requests |-> 1]]
  ELSE [success |-> TRUE, data |-> validateAndDeduplicateProducts(found),
        usage |-> [requests |-> Len(results), tokens |-> Len(found) * 100]]

\* One of the four provider promises settles
ProviderSettles(i) ==
  /\ op = "searchProduct"
  /\ response = None
  /\ branches[i] = Pending
  /\ \E o \in ProviderOutcomes(i) : branches' = [branches EXCEPT ![i] = o]
  /\ firstSettled' = IF IsSome(firstSettled) THEN firstSettled ELSE Some(i)
  /\ UNCHANGED <<op, imageUrls, analysesIn, products, response>>

searchWithSerpAPI == ProviderSettles(1) /\ UNCHANGED <<contentVars, validateVars, matcherVars, pageVars, toolVars, calls>>
searchAmazon == ProviderSettles(2) /\ UNCHANGED <<contentVars, validateVars, matcherVars, pageVars, toolVars, calls>>
searchEbay == ProviderSettles(3) /\ UNCHANGED <<contentVars, validateVars, matcherVars, pageVars, toolVars, calls>>
searchAliExpress == ProviderSettles(4) /\ UNCHANGED <<contentVars, validateVars, matcherVars, pageVars, toolVars, calls>>

\* searchProduct from the line after the await to its return
searchProduct ==
  /\ op = "searchProduct"
  /\ response = None
  /\ AllSettled(branches)
  /\ LET found == CollectProducts(branches) IN
       /\ products' = found
       /\ \E rName, rPrice, rOriginal, rRating, rReviews \in RandomSamples :
            response' = Some(SearchProductResponse(branches, found,
                          IF Len(found) = 0
                          THEN generateMockProduct(rName, rPrice, rOriginal, rRating, rReviews)
                          ELSE None))
  /\ UNCHANGED <<op, imageUrls, analysesIn, branches, contentVars, validateVars, matcherVars, pageVars, toolVars, calls, firstSettled>>

--------------------------------------------------------------------------
(* ImageAnalysisService.analyzeImages and MediaProcessingService.processMedia *)

\* generateMockAnalysis(imageUrl)
generateMockAnalysis(url) == [url |-> url, by |-> "mock", isProductImage |-> TRUE]

\* What the promise of analyzeImage(url) can settle to: the analysis of the
\* first provider that answered, the mock analysis when none is configured,
\* or success = false with the mock analysis from its catch block
AnalyzeImageOutcomes(url) ==
  {Fulfilled([success |-> TRUE,
              data |-> [url |-> url, by |-> by, isProductImage |-> isProduct]]) :
     by \in {"Google Vision", "Clarifai"}, isProduct \in BOOLEAN}
  \cup {Fulfilled([success |-> TRUE, data |-> generateMockAnalysis(url)]),
        Fulfilled([success |-> FALSE, error |-> "Analysis failed",
                   data |-> generateMockAnalysis(url)])}

\* Variant: failed images left out instead of replaced by a mock analysis
CollectAnalysesOfSucceeded(urls, results) ==
  Concat([i \in 1..Len(results) |->
            IF results[i].status = "fulfilled" /\ results[i].value.success
            THEN <<results[i].value.data>> ELSE <<>>])

\* The forEach of analyzeImages: one analysis per settled result
CollectAnalyses(urls, results) ==
  [i \in 1..Len(results) |->
     IF results[i].status = "fulfilled" /\ results[i].value.success
     THEN results[i].value.data
     ELSE generateMockAnalysis(urls[i])]

analyzeImage(i) ==
  /\ op = "analyzeImages"
  /\ response = None
  /\ i \in 1..Len(branches)
  /\ branches[i] = Pending
  /\ \E o \in AnalyzeImageOutcomes(imageUrls[i]) : branches' = [branches EXCEPT ![i] = o]
  /\ UNCHANGED <<op, imageUrls, analysesIn, products, response, contentVars, validateVars, matcherVars, pageVars, toolVars, calls, firstSettled>>

\* analyzeImages from the line after the await to its return
analyzeImages ==
  /\ op = "analyzeImages"
  /\ response = None
  /\ AllSettled(branches)
  /\ response' = Some([success |-> TRUE,
                       data |-> CollectAnalyses(imageUrls, branches),
                       usage |-> [requests |-> Len(imageUrls),
                                  tokens |-> Len(branches) * 50]])
  /\ UNCHANGED <<op, imageUrls, analysesIn, branches, products, contentVars, validateVars, matcherVars, pageVars, toolVars, calls, firstSettled>>

\* createFallbackMedia(imageUrl, analysis)
createFallbackMedia(url, analysis) ==
  [original |-> url, processed |-> "original", cloudinaryUrl |-> "original",
   optimized |-> "fallback", analysis |-> analysis]

\* What the promise of processImage(url, analysis) can settle to: each of the
\* two optional steps (background removal, Cloudinary upload) done or skipped,
\* or success = false with the fallback media from its catch block
ProcessImageOutcomes(url, analysis) ==
  {Fulfilled([success |-> TRUE,
              data |-> [original |-> url,
                        processed |-> IF removed THEN "backgroundRemoved" ELSE "original",
                        cloudinaryUrl |-> IF uploaded THEN "cloudinary" ELSE "original",
                        optimized |-> IF uploaded THEN "cloudinary" ELSE "original",
                        analysis |-> analysis]]) :
     removed \in BOOLEAN, uploaded \in BOOLEAN}
  \cup {Fulfilled([success |-> FALSE, error |-> "Processing failed",
                   data |-> createFallbackMedia(url, analysis)])}

\* The forEach of processMedia: one processed media per settled result
CollectMedia(urls, analyses, results) ==
  [i \in 1..Len(results) |->
     IF results[i].status = "fulfilled" /\ results[i].value.success
     THEN results[i].value.data
     ELSE createFallbackMedia(urls[i], analyses[i])]

processImage(i) ==
  /\ op = "processMedia"
  /\ response = None
  /\ i \in 1..Len(branches)
  /\ branches[i] = Pending
  /\ \E o \in ProcessImageOutcomes(imageUrls[i], analysesIn[i]) :
       branches' = [branches EXCEPT ![i] = o]
  /\ UNCHANGED <<op, imageUrls, analysesIn, products, response, contentVars, validateVars, matcherVars, pageVars, toolVars, calls, firstSettled>>

\* processMedia from the line after the await to its return
processMedia ==
  /\ op = "processMedia"
  /\ response = None
  /\ AllSettled(branches)
  /\ response' = Some([success |-> TRUE,
                       data |-> CollectMedia(imageUrls, analysesIn, branches),
                       usage |-> [requests |-> Len(imageUrls),
                                  tokens |-> Len(branches) * 25]])
  /\ UNCHANGED <<op, imageUrls, analysesIn, branches, products, contentVars, validateVars, matcherVars, pageVars, toolVars, calls, firstSettled>>

--------------------------------------------------------------------------
(* AIContentService: the raw model output and JSON.parse *)

(* A raw model output is a sequence of tokens:                             *)
(*   line    a line of prose; `says` names the keyword it starts with      *)
(*           ("Headline: ..."), "" when it has none                        *)
(*   fence   a Markdown code fence, ``` or ```json                         *)
(*   {  }    a brace standing alone                                        *)
(*   obj     the text of a JSON object, from its { to its }, whose members *)
(*           are `members`                                                 *)
(*   num     a JSON number literal                                         *)
(*   null    the JSON literal null                                         *)
(* A string value is a sequence of chunks; "" is the empty sequence.       *)

Tok(kind) == [t |-> kind]
Line(keyword) == [t |-> "line", says |-> keyword]
Obj(members) == [t |-> "obj", members |-> members]

SimpleTokens ==
  {Line(""), Line("headline"), Tok("fence"), Tok("{"), Tok("}"), Tok("num"), Tok("null")}

\* The semantic fields of the content and the keys that carry them
TwoKeyFields == {"headline", "subheadline", "cta", "description", "features"}
OneKeyFields == {"urgency", "guarantee", "reviews", "upsells", "socialProof"}
Fields == TwoKeyFields \cup OneKeyFields

JsonReviews ==
  << [name |-> Some(<<"Ann">>), rating |-> Some(4), comment |-> Some(<<"json comment">>),
      text |-> None, location |-> Some(<<"Oslo">>)],
     [name |-> None, rating |-> Some(0), comment |-> None,
      text |-> Some(<<"json text">>), location |-> None] >>
JsonUpsells == << [title |-> <<"json upsell">>, price |-> <<"$5">>] >>
JsonSocialProof == [totalCustomers |-> 7, averageRating |-> 5000,
                    countriesServed |-> 3, monthlyUsers |-> 9]

\* The value a JSON document of the model gives field f under the nested
\* ("hero.", "product.", "pricing.", "") or the flattened key
JsonValue(where, f) ==
  CASE f = "features"    -> << <<where, "feature 1">>, <<where, "feature 2">> >>
    [] f = "reviews"     -> JsonReviews
    [] f = "upsells"     -> JsonUpsells
    [] f = "socialProof" -> JsonSocialProof
    [] OTHER             -> <<where, f>>

\* The values a key can have when it is not the document's value: no such
\* key, or an empty string / empty array
HoleValues(f) == IF f = "socialProof" THEN {None} ELSE {None, Some(<<>>)}

\* A parsed document: for each field its value under the nested and under the
\* flattened key (one-key fields have the nested key only)
MakeDoc(nestedOn, flatOn, hole, holeNested, holeFlat) ==
  [ nested |-> [f \in Fields |->
                  IF f = hole THEN holeNested
                  ELSE IF nestedOn \/ f \in OneKeyFields THEN Some(JsonValue("nested", f))
                  ELSE None],
    flat   |-> [f \in TwoKeyFields |->
                  IF f = hole THEN holeFlat
                  ELSE IF flatOn THEN Some(JsonValue("flat", f))
                  ELSE None] ]

EmptyDoc == [nested |-> [f \in Fields |-> None], flat |-> [f \in TwoKeyFields |-> None]]

Docs ==
  {EmptyDoc}
  \cup {MakeDoc(n, fl, "-", None, None) : n \in BOOLEAN, fl \in BOOLEAN}
  \cup UNION {{MakeDoc(n, fl, h, hv, hv) : n \in BOOLEAN, fl \in BOOLEAN,
                                           hv \in HoleValues(h)} : h \in Fields}
  \cup UNION {{MakeDoc(TRUE, FALSE, h, hv, Some(JsonValue("flat", h))) :
                  hv \in HoleValues(h)} : h \in TwoKeyFields}

\* Raw outputs: any token sequence up to the bound with at most one object
InsertAt(s, k, x) == SubSeq(s, 1, k - 1) \o <<x>> \o SubSeq(s, k, Len(s))
Texts ==
  SeqsUpTo(SimpleTokens, MaxTextLen)
  \cup UNION {{InsertAt(s, k, Obj(d)) : k \in 1..(Len(s) + 1), d \in Docs} :
                s \in SeqsUpTo(SimpleTokens, MaxTextLen - 1)}

\* cleanedText.replace(/```json\n?/g, '').replace(/```\n?/g, '')
StripFences(toks) == SelectSeq(toks, LAMBDA x : x.t # "fence")

HasOpenBrace(x) == x.t \in {"{", "obj"}
HasCloseBrace(x) == x.t \in {"}", "obj"}

\* cleanedText.match(/\{[\s\S]*\}/): from the first { to the last } after it
jsonMatch(toks) ==
  LET opens == {i \in 1..Len(toks) : HasOpenBrace(toks[i])} IN
  IF opens = {} THEN None
  ELSE LET first == CHOOSE i \in opens : \A j \in opens : i <= j
           closes == {j \in first..Len(toks) :
                        HasCloseBrace(toks[j]) /\ (j > first \/ toks[j].t = "obj")}
       IN IF closes = {} THEN None
          ELSE Some(SubSeq(toks, first, CHOOSE j \in closes : \A k \in closes : k <= j))

\* JSON.parse: the value, or a SyntaxError
JSONparse(toks) ==
  IF Len(toks) = 1 /\ toks[1].t = "obj"
    THEN [ok |-> TRUE, type |-> "object", members |-> toks[1].members]
  ELSE IF Len(toks) = 2 /\ toks[1].t = "{" /\ toks[2].t = "}"
    THEN [ok |-> TRUE, type |-> "object", members |-> EmptyDoc]
  ELSE IF Len(toks) = 1 /\ toks[1].t = "num"
    THEN [ok |-> TRUE, type |-> "number", members |-> EmptyDoc]
  ELSE IF Len(toks) = 1 /\ toks[1].t = "null"
    THEN [ok |-> TRUE, type |-> "null", members |-> EmptyDoc]
  ELSE [ok |-> FALSE, type |-> "SyntaxError", members |-> EmptyDoc]

\* Lines 242-253: trim, strip the fences, isolate the braces, parse
ParseCleaned(raw) ==
  LET cleanedText == StripFences(raw)
      m == jsonMatch(cleanedText)
  IN JSONparse(IF IsSome(m) THEN Get(m) ELSE cleanedText)

--------------------------------------------------------------------------
(* AIContentService: building the content object *)

\* The fallback products of the model
PriceNow == <<"$","7","9",".","9","9">>
PriceWas == <<"$","9","9",".","9","9">>
Products ==
  { [title |-> <<"Widget">>, description |-> <<"product description">>,
     features |-> << <<"product feature">> >>, specifications |-> <<"Material">>,
     price |-> PriceNow, originalPrice |-> Some(PriceWas), currency |-> "USD",
     category |-> "electronics"],
    [title |-> <<"Widget">>, description |-> <<"product description">>,
     features |-> << <<"product feature">> >>, specifications |-> <<"Material">>,
     price |-> PriceNow, originalPrice |-> None, currency |-> "USD",
     category |-> "general"] }

OptionSets ==
  {[targetAudience |-> a, language |-> "en", includeUpsells |-> u] :
     a \in {"america", "europe"}, u \in BOOLEAN}

\* The values successive Math.random() calls return: rng, cycled
RandomStreams == {<<0, 998>>, <<998, 500>>}
Random(stream, k) == stream[((k - 1) % Len(stream)) + 1]

\* a || b on strings: the empty string is falsy
Truthy(o) == IsSome(o) /\ Get(o) # <<>>
\* a || b on arrays and objects: every array and object is truthy
Present(o) == IsSome(o)

\* Variant: the flattened key is read before the nested one
ResolveFieldFlatFirst(nested, flat, fallback) ==
  IF Truthy(flat) THEN Get(flat)
  ELSE IF Truthy(nested) THEN Get(nested)
  ELSE fallback

\* Variant: the chain ends after the two keys
ResolveFieldWithoutFallback(nested, flat, fallback) ==
  IF Truthy(nested) THEN Get(nested)
  ELSE IF Truthy(flat) THEN Get(flat)
  ELSE <<>>

\* parsed.x?.f || parsed.f || fallback, for a string field
ResolveField(nested, flat, fallback) ==
  IF Truthy(nested) THEN Get(nested)
  ELSE IF Truthy(flat) THEN Get(flat)
  ELSE fallback

\* parsed.product?.features || parsed.features || product.features
ResolveArray(nested, flat, fallback) ==
  IF Present(nested) THEN Get(nested)
  ELSE IF Present(flat) THEN Get(flat)
  ELSE fallback

DefaultBackground == <<"https://images.pexels.com/photos/90946/pexels-photo-90946.jpeg">>
backgroundImage(mediaIn) ==
  IF Len(mediaIn) > 0 THEN mediaIn[1].optimized ELSE DefaultBackground

\* parseFloat(s.replace(/[^0-9.]/g, '')) in hundredths, for "d..d.dd" strings
RECURSIVE DigitsValue(_)
DigitsValue(ds) ==
  IF ds = <<>> THEN 0
  ELSE 10 * DigitsValue(SubSeq(ds, 1, Len(ds) - 1))
       + (CHOOSE d \in 0..9 : DigitOf(d) = ds[Len(ds)])
ParsePrice(s) == DigitsValue(RemoveOutside(s, DigitChars))

\* calculateDiscount parses both prices and ends without a return statement:
\* the call evaluates to undefined
calculateDiscount(current, original) ==
  LET currentPrice == ParsePrice(current)
      originalPrice == ParsePrice(original)
  IN None

locations(audience) ==
  CASE audience = "mena" -> <<"Dubai, UAE", "Riyadh, Saudi Arabia", "Cairo, Egypt",
                              "Doha, Qatar", "Kuwait City, Kuwait">>
    [] audience = "europe" -> <<"London, UK", "Paris, France", "Berlin, Germany",
                                "Rome, Italy", "Madrid, Spain">>
    [] OTHER -> <<"New York, NY", "Los Angeles, CA", "Chicago, IL", "Houston, TX",
                  "Miami, FL">>
getRandomLocation(audience, r) ==
  <<locations(audience)[RandomInt(r, Len(locations(audience))) + 1]>>

avatarIds == <<"774909", "697509", "1239291", "1222271", "1181686", "1043471",
               "415829", "1130626", "1484794", "1520760", "1674752", "1858175">>
generateAvatarUrl(r) == <<"pexels-photo-", avatarIds[RandomInt(r, Len(avatarIds)) + 1]>>

\* The review templates the source still holds for the audience
getReviewTemplates(audience, language) ==
  IF audience = "europe"
  THEN << [name |-> <<"Hans Mueller">>, rating |-> 5, verified |-> TRUE,
           comment |-> <<"Exceptional craftsmanship and sustainable packaging. Truly impressed!">>],
          [name |-> <<"Sophie Dubois">>, rating |-> 5, verified |-> TRUE,
           comment |-> <<"Beautiful design and excellent functionality. Worth the investment.">>],
          [name |-> <<"Marco Rossi">>, rating |-> 4, verified |-> TRUE,
           comment |-> <<"High quality product with attention to detail. Recommended.">>] >>
  ELSE << [name |-> <<"Sarah Johnson">>, rating |-> 5, verified |-> TRUE,
           comment |-> <<"Game changer! This product exceeded all my expectations. Fast shipping too!">>],
          [name |-> <<"Mike Chen">>, rating |-> 5, verified |-> TRUE,
           comment |-> <<"Outstanding quality and customer service. Will definitely buy again.">>],
          [name |-> <<"Emily Davis">>, rating |-> 4, verified |-> TRUE,
           comment |-> <<"Great product, easy to use. Arrived exactly as described.">>] >>

\* One review of the model's answer; Math.random() calls k, k+1, (k+2)
MapAiReview(review, audience, stream, k) ==
  [ name     |-> IF Truthy(review.name) THEN Get(review.name) ELSE <<"Anonymous Customer">>,
    rating   |-> IF IsSome(review.rating) /\ Get(review.rating) # 0
                 THEN Get(review.rating) ELSE 5,
    comment  |-> ResolveField(review.comment, review.text, <<"Great product!">>),
    verified |-> TRUE,
    daysAgo  |-> RandomInt(Random(stream, k), 90),
    location |-> IF Truthy(review.location) THEN Get(review.location)
                 ELSE getRandomLocation(audience, Random(stream, k + 1)),
    avatar   |-> generateAvatarUrl(
                   Random(stream, IF Truthy(review.location) THEN k + 1 ELSE k + 2)) ]

RandomCallsOf(review) == IF Truthy(review.location) THEN 2 ELSE 3

RECURSIVE MapAiReviews(_, _, _, _)
MapAiReviews(aiReviews, audience, stream, k) ==
  IF aiReviews = <<>> THEN <<>>
  ELSE <<MapAiReview(Head(aiReviews), audience, stream, k)>>
       \o MapAiReviews(Tail(aiReviews), audience, stream, k + RandomCallsOf(Head(aiReviews)))

RECURSIVE RandomCallsOfAll(_)
RandomCallsOfAll(aiReviews) ==
  IF aiReviews = <<>> THEN 0
  ELSE RandomCallsOf(Head(aiReviews)) + RandomCallsOfAll(Tail(aiReviews))

\* generateAdvancedReviews: the model's reviews when it gave any, else the
\* audience's templates; Math.random() calls start at call k
generateAdvancedReviews(aiReviews, opts, stream, k) ==
  IF Len(aiReviews) > 0
  THEN MapAiReviews(aiReviews, opts.targetAudience, stream, k)
  ELSE LET reviewTemplates == getReviewTemplates(opts.targetAudience, opts.language) IN
       [i \in 1..Len(reviewTemplates) |->
          [ name     |-> reviewTemplates[i].name,
            rating   |-> reviewTemplates[i].rating,
            comment  |-> reviewTemplates[i].comment,
            verified |-> reviewTemplates[i].verified,
            daysAgo  |-> RandomInt(Random(stream, k + 3 * (i - 1)), 30),
            location |-> getRandomLocation(opts.targetAudience,
                                           Random(stream, k + 3 * (i - 1) + 1)),
            avatar   |-> generateAvatarUrl(Random(stream, k + 3 * (i - 1) + 2)) ]]

ReviewRandomCalls(aiReviews, opts) ==
  IF Len(aiReviews) > 0 THEN RandomCallsOfAll(aiReviews)
  ELSE 3 * Len(getReviewTemplates(opts.targetAudience, opts.language))

generateTrustBadges(audience) ==
  <<"pexels-photo-6801648", "pexels-photo-6801649">>

getCategorySpecificUpsells(category, title) ==
  CASE category = "electronics" ->
         << [title |-> <<"Premium Protection Case">>, price |-> <<"$24.99">>],
            [title |-> <<"Extended Warranty">>, price |-> <<"$39.99">>] >>
    [] category = "clothing" ->
         << [title |-> <<"Matching Accessories">>, price |-> <<"$19.99">>],
            [title |-> <<"Care Kit">>, price |-> <<"$14.99">>] >>
    [] category = "home" ->
         << [title |-> <<"Installation Service">>, price |-> <<"$49.99">>],
            [title |-> <<"Maintenance Kit">>, price |-> <<"$29.99">>] >>
    [] OTHER -> <<>>

generateUpsells(p) ==
  LET categoryUpsells == getCategorySpecificUpsells(p.category, p.title) IN
  IF Len(categoryUpsells) > 0 THEN categoryUpsells
  ELSE << [title |-> p.title \o <<" Accessories Kit">>, price |-> <<"$29.99">>],
          [title |-> <<"Extended Warranty">>, price |-> <<"$19.99">>] >>

generateContactInfo(opts) ==
  [whatsapp |-> <<"+1234567890">>, messenger |-> <<"https://m.me/yourpage">>,
   chatbot |-> TRUE, phone |-> <<"+1-800-PRODUCT">>, email |-> <<"support@landingpage.com">>]

\* Variant: the customer range ten times as wide
RandomSocialProofWide(stream, k) ==
  [ totalCustomers  |-> 10000 + RandomInt(Random(stream, k), 500000),
    averageRating   |-> 4500 + Random(stream, k + 1) \div 2,
    countriesServed |-> 25 + RandomInt(Random(stream, k + 2), 75),
    monthlyUsers    |-> 5000 + RandomInt(Random(stream, k + 3), 20000) ]

\* The socialProof literal; Math.random() calls k .. k+3
RandomSocialProof(stream, k) ==
  [ totalCustomers  |-> 10000 + RandomInt(Random(stream, k), 50000),
    averageRating   |-> 4500 + Random(stream, k + 1) \div 2,
    countriesServed |-> 25 + RandomInt(Random(stream, k + 2), 75),
    monthlyUsers    |-> 5000 + RandomInt(Random(stream, k + 3), 20000) ]

DefaultHeadline(p) == <<"Discover ">> \o p.title
DefaultSubheadline == <<"Premium quality product with exceptional value">>
DefaultCta == <<"Order Now">>
DefaultUrgency == <<"Limited time offer!">>
DefaultGuarantee == <<"30-day money-back guarantee">>

structureAdvancedContent(doc, p, opts, mediaIn, stream) ==
  LET aiReviews == OrElse(doc.nested["reviews"], <<>>) IN
  [ hero |->
      [ headline    |-> ResolveField(doc.nested["headline"], doc.flat["headline"],
                                     DefaultHeadline(p)),
        subheadline |-> ResolveField(doc.nested["subheadline"], doc.flat["subheadline"],
                                     DefaultSubheadline),
        cta         |-> ResolveField(doc.nested["cta"], doc.flat["cta"], DefaultCta),
        backgroundImage |-> backgroundImage(mediaIn) ],
    product |->
      [ title       |-> p.title,
        description |-> ResolveField(doc.nested["description"], doc.flat["description"],
                                     p.description),
        features    |-> ResolveArray(doc.nested["features"], doc.flat["features"],
                                     p.features),
        specifications |-> p.specifications,
        media       |-> mediaIn ],
    pricing |->
      [ current   |-> p.price,
        original  |-> p.originalPrice,
        discount  |-> IF IsSome(p.originalPrice)
                      THEN calculateDiscount(p.price, Get(p.originalPrice)) ELSE None,
        currency  |-> p.currency,
        urgency   |-> Some(ResolveField(doc.nested["urgency"], None, DefaultUrgency)),
        guarantee |-> Some(ResolveField(doc.nested["guarantee"], None, DefaultGuarantee)) ],
    reviews     |-> generateAdvancedReviews(aiReviews, opts, stream, 1),
    trustBadges |-> generateTrustBadges(opts.targetAudience),
    upsells     |-> IF opts.includeUpsells
                    THEN ResolveArray(doc.nested["upsells"], None, generateUpsells(p))
                    ELSE <<>>,
    contact     |-> generateContactInfo(opts),
    tracking    |-> [facebookPixel |-> None, googleAnalytics |-> None,
                     customEvents |-> <<"page_view", "add_to_cart", "purchase",
                                        "scroll_depth", "cta_click">>],
    socialProof |-> IF Present(doc.nested["socialProof"])
                    THEN Get(doc.nested["socialProof"])
                    ELSE RandomSocialProof(stream, 1 + ReviewRandomCalls(aiReviews, opts)) ]

\* The key names of an object's text that contain the keyword as a substring
KeysContaining(keyword) ==
  CASE keyword = "headline"    -> {"headline", "subheadline"}
    [] keyword = "subheadline" -> {"subheadline"}
    [] keyword = "description" -> {"description"}
    [] keyword = "title"       -> {"upsells"}
    [] OTHER                   -> {}

HasKey(doc, f) ==
  \/ IsSome(doc.nested[f])
  \/ f \in TwoKeyFields /\ IsSome(doc.flat[f])

\* Whether the token's text matches new RegExp(`${keyword}[:\\s]*([^\\n]+)`, 'i')
MatchesKeyword(tok, keyword) ==
  \/ tok.t = "line" /\ tok.says = keyword
  \/ tok.t = "obj" /\ \E f \in KeysContaining(keyword) : HasKey(tok.members, f)

\* extractSection: the rest of the line after the first keyword that occurs
extractSection(raw, keywords) ==
  LET hits == {k \in 1..Len(keywords) :
                 \E i \in 1..Len(raw) : MatchesKeyword(raw[i], keywords[k])} IN
  IF hits = {} THEN None
  ELSE Some(<<"rest of the line after ",
              keywords[CHOOSE k \in hits : \A j \in hits : k <= j]>>)

\* lines.slice(2, 5).join(' ')
LineText(tok) == <<"line of ", tok.t>>
JoinLines(toks) == Concat([i \in 1..Len(toks) |-> LineText(toks[i])])
SliceLines(raw) ==
  IF Len(raw) < 3 THEN <<>>
  ELSE SubSeq(raw, 3, IF Len(raw) < 5 THEN Len(raw) ELSE 5)

extractAdvancedContentFromText(raw, p, opts, mediaIn, stream) ==
  LET headline == ResolveField(extractSection(raw, <<"headline", "title">>), None,
                               DefaultHeadline(p))
      subheadline == ResolveField(extractSection(raw, <<"subheadline", "subtitle">>), None,
                                  DefaultSubheadline)
      description == ResolveField(extractSection(raw, <<"description", "about">>),
                                  Some(JoinLines(SliceLines(raw))), p.description)
  IN
  [ hero |-> [headline |-> headline, subheadline |-> subheadline, cta |-> DefaultCta,
              backgroundImage |-> backgroundImage(mediaIn)],
    product |-> [title |-> p.title, description |-> description, features |-> p.features,
                 specifications |-> p.specifications, media |-> mediaIn],
    pricing |-> [current |-> p.price, original |-> p.originalPrice, discount |-> None,
                 currency |-> p.currency, urgency |-> None, guarantee |-> None],
    reviews     |-> generateAdvancedReviews(<<>>, opts, stream, 1),
    trustBadges |-> generateTrustBadges(opts.targetAudience),
    upsells     |-> IF opts.includeUpsells THEN generateUpsells(p) ELSE <<>>,
    contact     |-> generateContactInfo(opts),
    tracking    |-> [facebookPixel |-> None, googleAnalytics |-> None,
                     customEvents |-> <<"page_view", "add_to_cart", "purchase",
                                        "scroll_depth", "cta_click">>],
    socialProof |-> RandomSocialProof(stream, 1 + ReviewRandomCalls(<<>>, opts)) ]

Returned(content, by) == [status |-> "returned", by |-> by, content |-> content]
Threw(error) == [status |-> "threw", error |-> error]

\* The catch clause is written `catch {`: it binds no identifier
CatchBinding == None

\* The catch block of parseAdvancedAIResponse: its first statement reads
\* `error`, a name nothing in scope declares, before the fallback is called
CatchBlock(binding, raw, p, opts, mediaIn, stream) ==
  IF binding = Some("error")
  THEN Returned(extractAdvancedContentFromText(raw, p, opts, mediaIn, stream),
                "extractAdvancedContentFromText")
  ELSE Threw("ReferenceError: error is not defined")

\* parseAdvancedAIResponse: structureAdvancedContent reads parsed.hero, which
\* throws a TypeError when parsed is null
parseAdvancedAIResponse(raw, p, opts, mediaIn, stream) ==
  LET json == ParseCleaned(raw) IN
  IF json.ok /\ json.type # "null"
  THEN Returned(structureAdvancedContent(json.members, p, opts, mediaIn, stream),
                "structureAdvancedContent")
  ELSE CatchBlock(CatchBinding, raw, p, opts, mediaIn, stream)

MediaSets == {<<>>, <<[optimized |-> <<"optimized-1">>]>>}

CallParseAdvancedAIResponse ==
  /\ op = "parseAdvancedAIResponse"
  /\ parsed = None
  /\ parsed' = Some(parseAdvancedAIResponse(text, product, options, media, rng))
  /\ UNCHANGED <<text, product, options, media, rng, openai, contentResponse,
                 serviceVars, validateVars, matcherVars, pageVars, toolVars, calls, firstSettled>>

\* getAudienceSpecificContent: the texts around the {product} placeholder; the
\* Arabic texts of mena.ar are named, not spelled out
AudienceContent(key) ==
  CASE key = "mena.en" ->
         [headline |-> << <<"Transform Your Life with ">>, <<" - Premium Quality Guaranteed">> >>,
          subheadline |-> <<"Join thousands of satisfied customers who chose quality and value">>,
          cta |-> <<"Order Now - Free Shipping">>,
          description |-> << <<"Experience the perfect blend of innovation and quality with ">>,
                             <<". Designed for families who value excellence and reliability.">> >>,
          urgency |-> <<"Limited Stock - Order Today!">>]
    [] key = "mena.ar" ->
         [headline |-> << <<"(ar) headline, before ">>, <<"(ar) headline, after">> >>,
          subheadline |-> <<"(ar) subheadline">>,
          cta |-> <<"(ar) cta">>,
          description |-> << <<"(ar) description, before ">>, <<"(ar) description, after">> >>,
          urgency |-> <<"(ar) urgency">>]
    [] key = "europe.en" ->
         [headline |-> << <<"Discover ">>, <<" - Crafted for Excellence">> >>,
          subheadline |-> <<"Sustainable quality meets innovative design for the conscious consumer">>,
          cta |-> <<"Order Now - Eco-Friendly Packaging">>,
          description |-> << <<>>, <<" represents the pinnacle of European craftsmanship and sustainable innovation, designed to last for years.">> >>,
          urgency |-> <<"Limited Edition - While Supplies Last">>]
    [] OTHER ->
         [headline |-> << <<"Get ">>, <<" - The Smart Choice for Modern Living">> >>,
          subheadline |-> <<"Trusted by over 10,000 customers nationwide with 5-star reviews">>,
          cta |-> <<"Buy Now - Fast Delivery">>,
          description |-> << <<>>, <<" combines cutting-edge technology with user-friendly design to make your life easier and more efficient.">> >>,
          urgency |-> <<"Flash Sale - 48 Hours Only!">>]

getAudienceSpecificContent(audience, language) ==
  IF audience = "mena" THEN AudienceContent(IF language = "ar" THEN "mena.ar" ELSE "mena.en")
  ELSE IF audience = "europe" THEN AudienceContent("europe.en")
  ELSE AudienceContent("america.en")

\* template.replace('{product}', product.title)
ReplaceProduct(template, title) == template[1] \o title \o template[2]

generateMockContent(p, opts, mediaIn, stream) ==
  LET audienceContent == getAudienceSpecificContent(opts.targetAudience, opts.language) IN
  [ hero |-> [headline |-> ReplaceProduct(audienceContent.headline, p.title),
              subheadline |-> audienceContent.subheadline,
              cta |-> audienceContent.cta,
              backgroundImage |-> backgroundImage(mediaIn)],
    product |-> [title |-> p.title,
                 description |-> ReplaceProduct(audienceContent.description, p.title),
                 features |-> p.features,
                 specifications |-> p.specifications, media |-> mediaIn],
    pricing |-> [current |-> p.price, original |-> p.originalPrice,
                 discount |-> IF IsSome(p.originalPrice)
                              THEN calculateDiscount(p.price, Get(p.originalPrice)) ELSE None,
                 currency |-> p.currency,
                 urgency |-> Some(audienceContent.urgency), guarantee |-> None],
    reviews     |-> generateAdvancedReviews(<<>>, opts, stream, 1),
    trustBadges |-> generateTrustBadges(opts.targetAudience),
    upsells     |-> IF opts.includeUpsells THEN generateUpsells(p) ELSE <<>>,
    contact     |-> generateContactInfo(opts),
    tracking    |-> [facebookPixel |-> None, googleAnalytics |-> None,
                     customEvents |-> <<"page_view", "add_to_cart", "purchase">>],
    socialProof |-> RandomSocialProof(stream, 1 + ReviewRandomCalls(<<>>, opts)) ]

\* The key check of generateContent and what the request of generateWithOpenAI
\* came to
OpenAIOutcomes ==
  {"key not configured", "fetch rejected", "response not ok", "no choices", "ok"}

\* Variant: a failure of the model path reported with success = true
GenerateContentResponseHidingFailure(outcome, raw, p, opts, mediaIn, stream) ==
  LET mock == generateMockContent(p, opts, mediaIn, stream)
      r == parseAdvancedAIResponse(raw, p, opts, mediaIn, stream)
  IN IF outcome = "ok" /\ r.status = "returned"
     THEN [success |-> TRUE, data |-> r.content, error |-> None]
     ELSE [success |-> TRUE, data |-> mock, error |-> None]

\* generateContent: mock content without a key; the parsed content when
\* generateWithOpenAI returns; mock content with success = false when it throws
GenerateContentResponse(outcome, raw, p, opts, mediaIn, stream) ==
  LET mock == generateMockContent(p, opts, mediaIn, stream)
      failed(message) ==
        [success |-> FALSE, data |-> mock,
         error |-> Some(<<"OpenAI content generation failed: ", message>>)]
  IN IF outcome = "key not configured"
     THEN [success |-> TRUE, data |-> mock, error |-> None]
     ELSE IF outcome = "ok"
     THEN LET r == parseAdvancedAIResponse(raw, p, opts, mediaIn, stream)
          IN IF r.status = "returned"
             THEN [success |-> TRUE, data |-> r.content, error |-> None]
             ELSE failed(r.error)
     ELSE failed(outcome)

generateContent ==
  /\ op = "generateContent"
  /\ contentResponse = None
  /\ contentResponse' =
       Some(GenerateContentResponse(Get(openai), text, product, options, media, rng))
  /\ UNCHANGED <<text, product, options, media, rng, parsed, openai,
                 serviceVars, validateVars, matcherVars, pageVars, toolVars, calls, firstSettled>>

--------------------------------------------------------------------------
(* ImageAnalysisService.validateProductMatch *)

TitleSmartDevice == <<"S","m","a","r","t"," ","D","e","v","i","c","e">>
TitleCar == <<"c","a","r">>
TitleEmpty == <<>>
TitleRedShoe == <<"R","e","d"," "," ","S","h","o","e">>
TitleCarDevice == <<"c","a","r"," ","d","e","v","i","c","e">>
LabelDevice == <<"D","e","v","i","c","e">>
LabelSmart == <<"s","m","a","r","t">>
LabelElectronic == <<"E","l","e","c","t","r","o","n","i","c"," ","d","e","v","i","c","e">>
LabelShoe == <<"S","h","o","e","s">>
LabelCarpet == <<"C","a","r","p","e","t">>
LabelRed == <<"r","e","d">>

ValidateTitles == {TitleSmartDevice, TitleCar, TitleEmpty, TitleRedShoe, TitleCarDevice}
LabelLists == { <<>>, <<LabelDevice, LabelSmart>>, <<LabelElectronic>>,
                <<LabelShoe, LabelRed>>, <<LabelCarpet>>, <<LabelElectronic, LabelCarpet>> }
\* confidence, in hundredths
Confidences == {0, 50, 100}
Analyses ==
  {[labels |-> ls, isProductImage |-> b, confidence |-> c] :
     ls \in LabelLists, b \in BOOLEAN, c \in Confidences}

\* String.prototype.includes
includes(s, sub) ==
  \E i \in 0..(Len(s) - Len(sub)) : SubSeq(s, i + 1, i + Len(sub)) = sub

\* String.prototype.split(/\s+/)
RECURSIVE SplitLoop(_, _, _, _)
SplitLoop(s, i, cur, out) ==
  IF i > Len(s) THEN Append(out, cur)
  ELSE IF s[i] \in SpaceChars
       THEN LET rest == {j \in i..Len(s) : s[j] \notin SpaceChars}
                next == IF rest = {} THEN Len(s) + 1
                        ELSE CHOOSE j \in rest : \A k \in rest : j <= k
            IN SplitLoop(s, next, <<>>, Append(out, cur))
       ELSE SplitLoop(s, i + 1, Append(cur, s[i]), out)
splitWhitespace(s) == SplitLoop(s, 1, <<>>, <<>>)

\* categoryMappings, in insertion order: the keyword lists of the six categories
categoryMappings ==
  << \* electronics
     {<<"d","e","v","i","c","e">>,
      <<"g","a","d","g","e","t">>,
      <<"t","e","c","h","n","o","l","o","g","y">>,
      <<"d","i","g","i","t","a","l">>,
      <<"e","l","e","c","t","r","o","n","i","c">>},
     \* clothing
     {<<"a","p","p","a","r","e","l">>,
      <<"w","e","a","r">>,
      <<"f","a","s","h","i","o","n">>,
      <<"t","e","x","t","i","l","e">>,
      <<"g","a","r","m","e","n","t">>},
     \* home
     {<<"f","u","r","n","i","t","u","r","e">>,
      <<"d","e","c","o","r">>,
      <<"h","o","u","s","e","h","o","l","d">>,
      <<"d","o","m","e","s","t","i","c">>,
      <<"i","n","t","e","r","i","o","r">>},
     \* beauty
     {<<"c","o","s","m","e","t","i","c">>,
      <<"s","k","i","n","c","a","r","e">>,
      <<"m","a","k","e","u","p">>,
      <<"b","e","a","u","t","y">>,
      <<"p","e","r","s","o","n","a","l"," ","c","a","r","e">>},
     \* sports
     {<<"f","i","t","n","e","s","s">>,
      <<"e","x","e","r","c","i","s","e">>,
      <<"a","t","h","l","e","t","i","c">>,
      <<"s","p","o","r","t">>,
      <<"t","r","a","i","n","i","n","g">>},
     \* automotive
     {<<"c","a","r">>,
      <<"v","e","h","i","c","l","e">>,
      <<"a","u","t","o","m","o","t","i","v","e">>,
      <<"m","o","t","o","r">>,
      <<"t","r","a","n","s","p","o","r","t">>} >>

\* calculateSemanticMatch: semanticScore and matches count the same categories
calculateSemanticMatch(titleWords, labels) ==
  LET matching == {c \in 1..Len(categoryMappings) :
                     /\ \E w \in Range(titleWords) : w \in categoryMappings[c]
                     /\ \E l \in Range(labels) :
                          \E keyword \in categoryMappings[c] : includes(l, keyword)}
      semanticScore == Cardinality(matching)
      matches == Cardinality(matching)
  IN IF matches > 0 THEN semanticScore \div matches ELSE 0

\* titleWords.filter(word => labels.some(...)).length
directMatches(titleWords, labels) ==
  Cardinality({i \in 1..Len(titleWords) :
                 \E l \in Range(labels) :
                   includes(l, titleWords[i]) \/ includes(titleWords[i], l)})

\* Variant: the two weights exchanged
imageScoreWeightsSwapped(titleWords, analysis) ==
  LET labels == [i \in 1..Len(analysis.labels) |-> toLowerCase(analysis.labels[i])] IN
  (3 * directMatches(titleWords, labels)
     + 7 * calculateSemanticMatch(titleWords, labels) * Len(titleWords))
  * analysis.confidence

\* Variant: the confidence weighting left out
imageScoreIgnoringConfidence(titleWords, analysis) ==
  LET labels == [i \in 1..Len(analysis.labels) |-> toLowerCase(analysis.labels[i])] IN
  (7 * directMatches(titleWords, labels)
     + 3 * calculateSemanticMatch(titleWords, labels) * Len(titleWords))
  * 100

\* (directMatchScore * 0.7 + semanticScore * 0.3) * confidence, as a multiple
\* of 1 / (1000 * titleWords.length)
imageScore(titleWords, analysis) ==
  LET labels == [i \in 1..Len(analysis.labels) |-> toLowerCase(analysis.labels[i])] IN
  (7 * directMatches(titleWords, labels)
     + 3 * calculateSemanticMatch(titleWords, labels) * Len(titleWords))
  * analysis.confidence

\* A score is the fraction num / den
Fraction(n, d) == [num |-> n, den |-> d]
DefaultScore == Fraction(1, 2)

RECURSIVE SumScores(_, _)
SumScores(titleWords, eligible) ==
  IF eligible = <<>> THEN 0
  ELSE imageScore(titleWords, Head(eligible)) + SumScores(titleWords, Tail(eligible))

\* Variant: the isProductImage test left out
EveryAnalysisEligible(analysis) == TRUE

\* if (!analysis.isProductImage) continue
IsEligible(analysis) == analysis.isProductImage

validateProductMatch(title, analyses) ==
  LET titleWords == splitWhitespace(toLowerCase(title))
      eligible == SelectSeq(analyses, IsEligible)
      totalAnalyses == Len(eligible)
      total == SumScores(titleWords, eligible)
      den == 1000 * Len(titleWords) * totalAnalyses
  IN IF totalAnalyses = 0 THEN DefaultScore
     ELSE IF total > den THEN Fraction(den, den)      \* Math.min(finalScore, 1.0)
     ELSE Fraction(total, den)

\* const semanticScore = this.calculateSemanticMatch(titleWords, labels), for
\* each analysis the loop counts
SemanticScoresOf(title, analyses) ==
  LET titleWords == splitWhitespace(toLowerCase(title))
      eligible == SelectSeq(analyses, IsEligible)
  IN [i \in 1..Len(eligible) |->
        calculateSemanticMatch(titleWords,
          [j \in 1..Len(eligible[i].labels) |-> toLowerCase(eligible[i].labels[j])])]

CallValidateProductMatch ==
  /\ op = "validateProductMatch"
  /\ matchScore = None
  /\ matchScore' = Some(validateProductMatch(productTitle, imageAnalyses))
  /\ semanticScores' = SemanticScoresOf(productTitle, imageAnalyses)
  /\ UNCHANGED <<productTitle, imageAnalyses, serviceVars, contentVars, matcherVars, pageVars, toolVars, calls, firstSettled>>

(* Product matcher: fetchFromSerpApi and the similarity it uses *)

\* first.replace(/\s+/g, '') in compareTwoStrings
RemoveSpaces(s) == SelectSeq(s, LAMBDA c : c \notin SpaceChars)

Bigrams(s) == [i \in 1..(Len(s) - 1) |-> SubSeq(s, i, i + 1)]

RemoveOne(s, x) ==
  LET i == CHOOSE k \in 1..Len(s) : s[k] = x /\ \A j \in 1..(k - 1) : s[j] # x
  IN SubSeq(s, 1, i - 1) \o SubSeq(s, i + 1, Len(s))

\* each bigram of the second string uses up one equal bigram of the first
RECURSIVE intersectionSize(_, _)
intersectionSize(firstBigrams, secondBigrams) ==
  IF secondBigrams = <<>> THEN 0
  ELSE IF Head(secondBigrams) \in Range(firstBigrams)
       THEN 1 + intersectionSize(RemoveOne(firstBigrams, Head(secondBigrams)),
                                 Tail(secondBigrams))
       ELSE intersectionSize(firstBigrams, Tail(secondBigrams))

\* stringSimilarity.compareTwoStrings: the Dice coefficient on bigrams
compareTwoStrings(first, second) ==
  LET a == RemoveSpaces(first)
      b == RemoveSpaces(second)
  IN IF a = b THEN Fraction(1, 1)
     ELSE IF Len(a) < 2 \/ Len(b) < 2 THEN Fraction(0, 1)
     ELSE Fraction(2 * intersectionSize(Bigrams(a), Bigrams(b)), Len(a) + Len(b) - 2)

\* x > y on fractions with positive denominators
GreaterThan(x, y) == x.num * y.den > y.num * x.den

NameAbcd == <<"a","b","c","d">>
NameAbCdBang == <<"A","b"," ","c","d","!">>
ProductNames == {NameAbcd, NameAbCdBang}

MatchTitles ==
  {None, Some(<<"a","b","c","d">>), Some(<<"a","b","c">>), Some(<<"a","b">>),
   Some(<<"a","b","c","d","e">>), Some(<<"A","B","C","D","!">>)}

\* One entry of response.data.shopping_results: the first link comes with a
\* price, a currency and a source, the second with none of them
MatchItem(t, l) ==
  [title |-> t, link |-> l, thumbnail |-> l,
   extracted_price |-> IF l = "link1" THEN Some(<<"9">>) ELSE None,
   price |-> None,
   currency |-> IF l = "link1" THEN Some(<<"U","S","D">>) ELSE None,
   source |-> IF l = "link1" THEN Some(<<"Shop">>) ELSE None]
MatchItems == {MatchItem(t, l) : t \in MatchTitles, l \in {"link1", "link2"}}

\* The key check and what axios.get(serpUrl) settled to
SerpResponse(kind, results) == [kind |-> kind, shopping_results |-> results]
SerpResponses ==
  {SerpResponse(k, <<>>) :
     k \in {"key not configured", "status 401", "status 429", "status 500",
            "network error", "not an axios error", "data not an object",
            "data.error", "no shopping_results"}}
  \cup {SerpResponse("data", rs) : rs \in SeqsUpTo(MatchItems, MaxResults)}

\* the loop over shopping_results
RECURSIVE BestMatchLoop(_, _, _, _)
BestMatchLoop(results, normalizedTarget, bestMatch, best) ==
  IF results = <<>> THEN [bestMatch |-> bestMatch, bestSimilarity |-> best]
  ELSE LET result == Head(results)
           title == normalizeText(OrElse(result.title, <<>>))
           similarity == compareTwoStrings(title, normalizedTarget)
       IN IF GreaterThan(similarity, best)
          THEN BestMatchLoop(Tail(results), normalizedTarget, Some(result), similarity)
          ELSE BestMatchLoop(Tail(results), normalizedTarget, bestMatch, best)

\* Variant: the threshold itself accepted
AcceptsAtThreshold(similarity) == 5 * similarity.num >= 4 * similarity.den

\* bestSimilarity > 0.8
Accepts(similarity) == 5 * similarity.num > 4 * similarity.den

\* the ProductResult of an accepted match
MatchedProduct(bestMatch) ==
  LET price == IF IsSome(bestMatch.extracted_price) THEN bestMatch.extracted_price
               ELSE bestMatch.price
  IN [title  |-> bestMatch.title,
      price  |-> IF IsSome(price)
                 THEN trim(Get(price) \o <<" ">> \o OrElse(bestMatch.currency, <<>>))
                 ELSE <<"Not available">>,
      link   |-> bestMatch.link,
      image  |-> bestMatch.thumbnail,
      source |-> OrElse(bestMatch.source, <<"Google Shopping">>)]

ErrorResult(message) == [error |-> message]

\* A UTF-16 code unit of a surrogate pair standing alone
LoneSurrogates == {"U+D800"}

\* encodeURIComponent: the escaped string, or a URIError (None) when the
\* argument holds a lone surrogate
EncodeChar(ch) ==
  CASE ch = " " -> <<"%", "2", "0">>
    [] ch = "\t" -> <<"%", "0", "9">>
    [] OTHER -> <<ch>>
encodeURIComponent(s) ==
  IF \E i \in 1..Len(s) : s[i] \in LoneSurrogates THEN None
  ELSE Some(Concat([i \in 1..Len(s) |-> EncodeChar(s[i])]))

\* the promise of an async function rejected
Rejection(reason) == [rejected |-> reason]

\* What the call settles to, and the bestSimilarity local where the loop ran.
\* The query is encoded (line 30) after the key check and before the try.
FetchFromSerpApiOutcome(name, resp) ==
  LET k == resp.kind
      noLoop(message) == [result |-> ErrorResult(message), bestSimilarity |-> None]
  IN IF k # "key not configured" /\ encodeURIComponent(name) = None
     THEN [result |-> Rejection("URIError: URI malformed"), bestSimilarity |-> None]
     ELSE
     CASE k = "key not configured" -> noLoop("SerpAPI key not configured.")
       [] k = "status 401" -> noLoop("Invalid SerpAPI key. Please check your API key.")
       [] k = "status 429" -> noLoop("SerpAPI rate limit exceeded. Please try again later.")
       [] k = "status 500" -> noLoop("SerpAPI request failed: 500")
       [] k = "network error" -> noLoop("SerpAPI request failed: Network error")
       [] k = "not an axios error" -> noLoop("Failed to fetch product data from SerpAPI.")
       [] k = "data not an object" ->
            noLoop("Invalid API response. Check your API key or parameters.")
       [] k = "data.error" -> noLoop("SerpAPI Error")
       [] k = "no shopping_results" \/ (k = "data" /\ resp.shopping_results = <<>>) ->
            noLoop("No results found from SerpAPI.")
       [] OTHER ->
            LET loop == BestMatchLoop(resp.shopping_results, normalizeText(name),
                                      None, Fraction(0, 1))
            IN IF IsSome(loop.bestMatch) /\ Accepts(loop.bestSimilarity)
               THEN [result |-> MatchedProduct(Get(loop.bestMatch)),
                     bestSimilarity |-> Some(loop.bestSimilarity)]
               ELSE [result |-> ErrorResult("No matching product found in SerpAPI results."),
                     bestSimilarity |-> Some(loop.bestSimilarity)]

fetchFromSerpApi ==
  /\ op = "fetchFromSerpApi"
  /\ productResult = None
  /\ LET out == FetchFromSerpApiOutcome(productName, Get(serpResponse))
     IN /\ productResult' = Some(out.result)
        /\ bestSimilarity' = out.bestSimilarity
  /\ UNCHANGED <<op, productName, serpResponse, rawText, normalized,
                 imageUrls, analysesIn, branches, products, response,
                 contentVars, validateVars, pageVars, toolVars, calls, firstSettled>>

\* The characters the arguments of normalizeText are drawn from
NormalizeAlphabet == {"a", "B", "1", " ", "\t", "!", "U+0633"}

\* normalizeText applied to the argument, then to its own result
CallNormalizeText ==
  /\ op = "normalizeText"
  /\ Len(normalized) < 2
  /\ normalized' = Append(normalized,
                          normalizeText(IF normalized = <<>> THEN rawText
                                        ELSE normalized[Len(normalized)]))
  /\ UNCHANGED <<op, rawText, productName, serpResponse, bestSimilarity, productResult,
                 imageUrls, analysesIn, branches, products, response,
                 contentVars, validateVars, pageVars, toolVars, calls, firstSettled>>

--------------------------------------------------------------------------
(* LandingPageGeneratorService.generateLandingPage *)

\* What a step can throw or reject with: an Error with a message (Some) or a
\* value that is not an Error (None)
ThrownValues == {Some("step failed"), Some(""), None}

\* error instanceof Error ? error.message : 'Unknown error'
ErrorMessage(thrown) == OrElse(thrown, "Unknown error")

PrimaryProduct == "primary product"
GeneratedContent == "generated content"

createFallbackProduct(u) == "fallback_product"
createFallbackContent == "fallback content"
generateFallbackHTML(u) == <<"Landing page generation failed.", u>>

StartLocals ==
  [primaryProduct |-> None, imageAnalyses |-> None, validationScore |-> None,
   processedMedia |-> None, landingPageContent |-> None, error |-> None]

\* Variant: the message of the caught error not appended
CatchResultErrorsOnly(u, errs, thrown) ==
  [success |-> FALSE,
   productData |-> createFallbackProduct(u),
   landingPageContent |-> createFallbackContent,
   html |-> generateFallbackHTML(u), css |-> "", javascript |-> "",
   mediaProcessed |-> 0, validationScore |-> 0,
   seoData |-> "Product Landing Page", integrations |-> "none",
   errors |-> IF errs # <<>> THEN Some(errs) ELSE None,
   warnings |-> None]

\* the GenerationResult the catch block returns
CatchResult(u, errs, thrown) ==
  [success |-> FALSE,
   productData |-> createFallbackProduct(u),
   landingPageContent |-> createFallbackContent,
   html |-> generateFallbackHTML(u), css |-> "", javascript |-> "",
   mediaProcessed |-> 0, validationScore |-> 0,
   seoData |-> "Product Landing Page", integrations |-> "none",
   errors |-> Some(Append(errs, ErrorMessage(thrown))),
   warnings |-> None]

\* control reaches the catch block with `errs` pushed so far
Catch(errs, thrown) ==
  /\ pc' = "done"
  /\ errors' = errs
  /\ locals' = [locals EXCEPT !.error = Some(thrown)]
  /\ generationResult' = Some(CatchResult(pageUrl, errs, thrown))
  /\ UNCHANGED warnings

PageFrame == UNCHANGED <<op, pageUrl, imageUrls, analysesIn, branches, products, response,
                         contentVars, validateVars, matcherVars, toolVars, firstSettled>>

\* Step 1: await searchProduct(url)
SearchProductResults ==
  {[success |-> FALSE, data |-> None], [success |-> TRUE, data |-> Some(<<>>)],
   [success |-> TRUE, data |-> Some(<<PrimaryProduct>>)]}
\* Variant: an empty search result replaced by the fallback product, the
\* steps carried on
AwaitSearchProductCarryingOn ==
  /\ op = "generateLandingPage" /\ pc = "searchProduct"
  /\ calls' = Append(calls, "searchProduct")
  /\ \/ \E thrown \in ThrownValues : Catch(errors, thrown)
     \/ \E r \in SearchProductResults :
          LET found == r.success /\ IsSome(r.data) /\ Get(r.data) # <<>> IN
          /\ errors' = IF found THEN errors
                        ELSE Append(errors, "Failed to find product data")
          /\ locals' = [locals EXCEPT !.primaryProduct =
                          Some(IF found THEN Get(r.data)[1]
                               ELSE createFallbackProduct(pageUrl))]
          /\ pc' = "analyzeImages"
          /\ UNCHANGED <<warnings, generationResult>>
  /\ PageFrame

AwaitSearchProduct ==
  /\ op = "generateLandingPage" /\ pc = "searchProduct"
  /\ calls' = Append(calls, "searchProduct")
  /\ \/ \E thrown \in ThrownValues : Catch(errors, thrown)
     \/ \E r \in SearchProductResults :
          IF ~r.success \/ ~IsSome(r.data) \/ Get(r.data) = <<>>
          THEN Catch(Append(errors, "Failed to find product data"),
                     Some("No product data found"))
          ELSE /\ locals' = [locals EXCEPT !.primaryProduct = Some(Get(r.data)[1])]
               /\ pc' = "analyzeImages"
               /\ UNCHANGED <<errors, warnings, generationResult>>
  /\ PageFrame

\* Step 2: await analyzeImages(primaryProduct.images)
AnalyzeImagesResults ==
  {[success |-> FALSE, data |-> None]}
  \cup {[success |-> s, data |-> Some(n)] : s \in BOOLEAN, n \in 0..MaxImages}
AwaitAnalyzeImages ==
  /\ op = "generateLandingPage" /\ pc = "analyzeImages"
  /\ calls' = Append(calls, "analyzeImages")
  /\ \/ \E thrown \in ThrownValues : Catch(errors, thrown)
     \/ \E r \in AnalyzeImagesResults :
          /\ warnings' = IF ~r.success
                         THEN Append(warnings, "Image analysis partially failed")
                         ELSE warnings
          /\ locals' = [locals EXCEPT !.imageAnalyses = Some(OrElse(r.data, 0))]
          /\ pc' = "validateProductMatch"
          /\ UNCHANGED <<errors, generationResult>>
  /\ PageFrame

\* Step 3: await validateProductMatch(title, imageAnalyses); scores in hundredths
ValidationScores == {0, 29, 30, 50, 100}
AwaitValidateProductMatch ==
  /\ op = "generateLandingPage" /\ pc = "validateProductMatch"
  /\ calls' = Append(calls, "validateProductMatch")
  /\ \/ \E thrown \in ThrownValues : Catch(errors, thrown)
     \/ \E validationScore \in ValidationScores :
          /\ warnings' = IF validationScore < 30
                         THEN Append(warnings,
                                "Low product validation score - results may be inaccurate")
                         ELSE warnings
          /\ locals' = [locals EXCEPT !.validationScore = Some(validationScore)]
          /\ pc' = "processMedia"
          /\ UNCHANGED <<errors, generationResult>>
  /\ PageFrame

\* Step 4: await processMedia(images, imageAnalyses)
ProcessMediaResults == {None} \cup {Some(n) : n \in 0..MaxImages}
AwaitProcessMedia ==
  /\ op = "generateLandingPage" /\ pc = "processMedia"
  /\ calls' = Append(calls, "processMedia")
  /\ \/ \E thrown \in ThrownValues : Catch(errors, thrown)
     \/ \E data \in ProcessMediaResults :
          /\ locals' = [locals EXCEPT !.processedMedia = Some(OrElse(data, 0))]
          /\ pc' = "generateContent"
          /\ UNCHANGED <<errors, warnings, generationResult>>
  /\ PageFrame

\* Steps 5 and 6: await generateContent(...), then generateLandingPageCode(...)
GenerateContentResults ==
  {[success |-> s, data |-> d] : s \in BOOLEAN, d \in {None, Some(GeneratedContent)}}
AwaitGenerateContent ==
  /\ op = "generateLandingPage" /\ pc = "generateContent"
  /\ \/ /\ \E thrown \in ThrownValues : Catch(errors, thrown)
        /\ calls' = Append(calls, "generateContent")
     \/ \E r \in GenerateContentResults, codeThrows \in BOOLEAN :
          LET errs == IF ~r.success THEN Append(errors, "AI content generation failed")
                      ELSE errors
          IN /\ calls' = calls \o <<"generateContent", "generateLandingPageCode">>
             /\ IF ~IsSome(r.data)
                THEN Catch(errs, Some("Cannot read properties of undefined (reading 'hero')"))
                ELSE IF codeThrows THEN Catch(errs, Some("step failed"))
                ELSE /\ errors' = errs
                     /\ locals' = [locals EXCEPT !.landingPageContent = r.data]
                     /\ pc' = "setupIntegrations"
                     /\ UNCHANGED <<warnings, generationResult>>
  /\ PageFrame

\* Steps 7 and 8: await setupIntegrations(...), then generateSEOData(...) and
\* the successful return
AwaitSetupIntegrations ==
  /\ op = "generateLandingPage" /\ pc = "setupIntegrations"
  /\ \/ /\ \E thrown \in ThrownValues : Catch(errors, thrown)
        /\ calls' = Append(calls, "setupIntegrations")
     \/ /\ calls' = calls \o <<"setupIntegrations", "generateSEOData">>
        /\ \E seoThrows \in BOOLEAN :
          IF seoThrows THEN Catch(errors, Some("step failed"))
          ELSE /\ pc' = "done"
               /\ generationResult' =
                    Some([success |-> TRUE,
                          productData |-> Get(locals.primaryProduct),
                          landingPageContent |-> Get(locals.landingPageContent),
                          html |-> <<"generated html", pageUrl>>,
                          css |-> "generated css", javascript |-> "generated javascript",
                          mediaProcessed |-> Get(locals.processedMedia),
                          validationScore |-> Get(locals.validationScore),
                          seoData |-> "generated seo data", integrations |-> "set up",
                          errors |-> IF errors # <<>> THEN Some(errors) ELSE None,
                          warnings |-> IF warnings # <<>> THEN Some(warnings) ELSE None])
               /\ UNCHANGED <<errors, warnings, locals>>
  /\ PageFrame

--------------------------------------------------------------------------
(* extractFeatures of ProductSearchService and of the scraper service *)

ToUpperChar(c) ==
  IF \E i \in 1..26 : LowerChars[i] = c
  THEN UpperChars[CHOOSE i \in 1..26 : LowerChars[i] = c]
  ELSE c

\* keyword.charAt(0).toUpperCase() + keyword.slice(1)
capitalize(keyword) ==
  IF keyword = <<>> THEN <<>>
  ELSE <<ToUpperChar(keyword[1])>> \o SubSeq(keyword, 2, Len(keyword))

\* array.slice(0, n)
sliceFirst(array, n) == SubSeq(array, 1, IF Len(array) < n THEN Len(array) ELSE n)

\* featureKeywords of ProductSearchService.extractFeatures
searchFeatureKeywords ==
  <<<<"w","a","t","e","r","p","r","o","o","f">>,
    <<"w","i","r","e","l","e","s","s">>,
    <<"b","l","u","e","t","o","o","t","h">>,
    <<"r","e","c","h","a","r","g","e","a","b","l","e">>,
    <<"p","o","r","t","a","b","l","e">>,
    <<"d","u","r","a","b","l","e">>,
    <<"l","i","g","h","t","w","e","i","g","h","t">>,
    <<"p","r","e","m","i","u","m">>,
    <<"p","r","o","f","e","s","s","i","o","n","a","l">>,
    <<"a","d","v","a","n","c","e","d">>,
    <<"s","m","a","r","t">>,
    <<"d","i","g","i","t","a","l">>,
    <<"a","u","t","o","m","a","t","i","c">>,
    <<"m","a","n","u","a","l">>,
    <<"a","d","j","u","s","t","a","b","l","e">>>>

\* featureKeywords of the scraper service's extractFeatures
scraperFeatureKeywords ==
  <<<<"p","r","e","m","i","u","m">>,
    <<"q","u","a","l","i","t","y">>,
    <<"d","u","r","a","b","l","e">>,
    <<"l","i","g","h","t","w","e","i","g","h","t">>,
    <<"w","a","t","e","r","p","r","o","o","f">>,
    <<"w","i","r","e","l","e","s","s">>,
    <<"b","l","u","e","t","o","o","t","h">>,
    <<"r","e","c","h","a","r","g","e","a","b","l","e">>,
    <<"p","o","r","t","a","b","l","e">>,
    <<"p","r","o","f","e","s","s","i","o","n","a","l">>,
    <<"a","d","v","a","n","c","e","d">>,
    <<"s","m","a","r","t">>,
    <<"d","i","g","i","t","a","l">>,
    <<"a","u","t","o","m","a","t","i","c">>,
    <<"a","d","j","u","s","t","a","b","l","e">>>>

\* the generic features pushed when no keyword matched
searchGenericFeatures ==
  <<<<"H","i","g","h"," ","Q","u","a","l","i","t","y">>,
    <<"R","e","l","i","a","b","l","e">>,
    <<"U","s","e","r"," ","F","r","i","e","n","d","l","y">>>>
scraperGenericFeatures ==
  <<<<"H","i","g","h"," ","Q","u","a","l","i","t","y">>,
    <<"R","e","l","i","a","b","l","e">>,
    <<"U","s","e","r"," ","F","r","i","e","n","d","l","y">>,
    <<"G","r","e","a","t"," ","V","a","l","u","e">>>>

\* The forEach over featureKeywords: the keywords some word includes,
\* capitalized, in the order of the dictionary
RECURSIVE MatchKeywords(_, _, _, _)
MatchKeywords(featureKeywords, words, i, found) ==
  IF i > Len(featureKeywords) THEN found
  ELSE MatchKeywords(featureKeywords, words, i + 1,
         IF \E w \in 1..Len(words) : includes(words[w], featureKeywords[i])
         THEN Append(found, capitalize(featureKeywords[i]))
         ELSE found)

\* Variant: the result not cut to five entries
extractFeaturesUncapped(featureKeywords, generic, description) ==
  LET words == splitWhitespace(toLowerCase(description))
      found == MatchKeywords(featureKeywords, words, 1, <<>>)
  IN IF Len(found) = 0 THEN generic ELSE found

\* extractFeatures(description), over the dictionary and the generic list of
\* the service it belongs to
extractFeatures(featureKeywords, generic, description) ==
  LET words == splitWhitespace(toLowerCase(description))
      found == MatchKeywords(featureKeywords, words, 1, <<>>)
  IN sliceFirst(IF Len(found) = 0 THEN found \o generic ELSE found, 5)

\* The words the scanned texts are made of
FeatureWords ==
  <<<<"W","a","t","e","r","p","r","o","o","f",",","w","i","r","e","l","e","s","s",",","b","l","u","e","t","o","o","t","h">>,
    <<"p","o","r","t","a","b","l","e","/","d","u","r","a","b","l","e","/","p","r","e","m","i","u","m">>,
    <<"S","M","A","R","T">>,
    <<"q","u","a","l","i","t","y">>,
    <<"m","a","n","u","a","l">>,
    <<"t","h","e">>,
    <<"s","m","a","r","t","w","a","t","c","h">>>>

JoinWords(ws) ==
  Concat([i \in 1..Len(ws) |-> IF i = 1 THEN ws[i] ELSE <<" ">> \o ws[i]])
FeatureTexts ==
  {JoinWords(ws) : ws \in SeqsUpTo(Range(FeatureWords), MaxWords)}
  \cup {<<" ">>, <<"\t", "s", "m", "a", "r", "t", " ">>}

FeatureServices == {"ProductSearchService.extractFeatures", "scraperService.extractFeatures"}
FeatureKeywordsOf(service) ==
  IF service = "ProductSearchService.extractFeatures"
  THEN searchFeatureKeywords ELSE scraperFeatureKeywords
GenericFeaturesOf(service) ==
  IF service = "ProductSearchService.extractFeatures"
  THEN searchGenericFeatures ELSE scraperGenericFeatures

CallExtractFeatures ==
  /\ op \in FeatureServices
  /\ features = None
  /\ features' = Some(extractFeatures(FeatureKeywordsOf(op), GenericFeaturesOf(op),
                                      featureText))
  /\ UNCHANGED <<featureText, serviceVars, contentVars, validateVars, matcherVars,
                 pageVars, apiKeys, imageAnalysis, apifyVars, settingsVars, calls,
                 firstSettled>>

--------------------------------------------------------------------------
(* ImageAnalysisService.analyzeImage: the provider chain of one image *)

\* What the constructor can read from an environment key: nothing, the
\* placeholder of the sample configuration, or a key
GoogleVisionKeys == {"", "your_actual_google_vision_key_here", "vision-key"}
ClarifaiKeys == {"", "your_actual_clarifai_key_here", "clarifai-key"}

googleVisionConfigured ==
  apiKeys.googleVision # "" /\ apiKeys.googleVision # "your_actual_google_vision_key_here"
clarifaiConfigured ==
  apiKeys.clarifai # "" /\ apiKeys.clarifai # "your_actual_clarifai_key_here"

\* How analyzeWithGoogleVision settles: every return statement has
\* success: true, every failure is rethrown by its catch block
GoogleVisionOutcomes(url) ==
  {[threw |-> FALSE,
    value |-> [success |-> TRUE,
               data |-> [url |-> url, by |-> "Google Vision", isProductImage |-> isProduct,
                         confidence |-> IF isProduct THEN 800 + (r * 200) \div 1000
                                        ELSE 300 + (r * 400) \div 1000]]] :
     isProduct \in BOOLEAN, r \in RandomSamples}
  \cup {[threw |-> TRUE, message |-> <<"Google Vision analysis failed: ", m>>] :
          m \in {"Google Vision API error: 500", "error payload message",
                 "Failed to fetch", "Cannot read properties of undefined (reading '0')"}}

\* How analyzeWithClarifai settles
ClarifaiOutcomes(url) ==
  {[threw |-> FALSE,
    value |-> [success |-> TRUE,
               data |-> [url |-> url, by |-> "Clarifai", isProductImage |-> isProduct,
                         confidence |-> IF isProduct THEN 700 + (r * 300) \div 1000
                                        ELSE 200 + (r * 300) \div 1000]]] :
     isProduct \in BOOLEAN, r \in RandomSamples}
  \cup {[threw |-> TRUE, message |-> <<"Clarifai analysis failed: ", m>>] :
          m \in {"Clarifai API error: 500", "Failed to fetch",
                 "Cannot read properties of undefined (reading '0')"}}

\* a provider call and how it settled
ProviderCall(provider, outcome) == [provider |-> provider, outcome |-> outcome]
Called(provider) == \E i \in 1..Len(calls) : calls[i].provider = provider
\* the call returned a result whose success is false (control falls through)
ReturnedWithoutSuccess(provider) ==
  \E i \in 1..Len(calls) :
    /\ calls[i].provider = provider
    /\ ~calls[i].outcome.threw
    /\ ~calls[i].outcome.value.success

\* The rest of analyzeImage once an awaited provider has settled: its result
\* is returned when it has success, the catch block answers when it threw
AfterProvider(url, outcome) ==
  IF outcome.threw
  THEN Some([success |-> FALSE, error |-> outcome.message,
             data |-> generateMockAnalysis(url)])
  ELSE IF outcome.value.success THEN Some(outcome.value)
  ELSE None

AnalyzeImageFrame ==
  UNCHANGED <<op, imageUrls, analysesIn, branches, products, response, apiKeys,
              contentVars, validateVars, matcherVars, pageVars, featureVars,
              apifyVars, settingsVars, firstSettled>>

\* line 56-61: await analyzeWithGoogleVision(imageUrl)
AwaitGoogleVision ==
  /\ op = "analyzeImage" /\ imageAnalysis = None
  /\ googleVisionConfigured /\ ~Called("Google Vision")
  /\ \E o \in GoogleVisionOutcomes(imageUrls[1]) :
       /\ calls' = Append(calls, ProviderCall("Google Vision", o))
       /\ imageAnalysis' = AfterProvider(imageUrls[1], o)
  /\ AnalyzeImageFrame

\* line 64-69: await analyzeWithClarifai(imageUrl)
AwaitClarifai ==
  /\ op = "analyzeImage" /\ imageAnalysis = None
  /\ ~googleVisionConfigured \/ ReturnedWithoutSuccess("Google Vision")
  /\ clarifaiConfigured /\ ~Called("Clarifai")
  /\ \E o \in ClarifaiOutcomes(imageUrls[1]) :
       /\ calls' = Append(calls, ProviderCall("Clarifai", o))
       /\ imageAnalysis' = AfterProvider(imageUrls[1], o)
  /\ AnalyzeImageFrame

\* line 72-75: return { success: true, data: generateMockAnalysis(imageUrl) }
ReturnMockAnalysis ==
  /\ op = "analyzeImage" /\ imageAnalysis = None
  /\ ~googleVisionConfigured \/ ReturnedWithoutSuccess("Google Vision")
  /\ ~clarifaiConfigured \/ ReturnedWithoutSuccess("Clarifai")
  /\ imageAnalysis' = Some([success |-> TRUE, data |-> generateMockAnalysis(imageUrls[1])])
  /\ UNCHANGED calls
  /\ AnalyzeImageFrame

--------------------------------------------------------------------------
(* scrapeProductData: SerpAPI, then Amazon, then eBay *)

AmazonKeys == {"", "your_amazon_api_key_here", "amazon-key"}
EbayKeys == {"", "your_ebay_api_key_here", "ebay-key"}

\* fetchFromAmazonApi: the integration is a placeholder that answers an error
fetchFromAmazonApi(key) ==
  IF key = "" \/ key = "your_amazon_api_key_here"
  THEN ErrorResult("Amazon API key not configured.")
  ELSE ErrorResult("Amazon API integration not fully implemented yet.")

\* fetchFromEbayApi: likewise
fetchFromEbayApi(key) ==
  IF key = "" \/ key = "your_ebay_api_key_here"
  THEN ErrorResult("eBay API key not configured.")
  ELSE ErrorResult("eBay API integration not fully implemented yet.")

NameLoneSurrogate == <<"a", "b", "U+D800">>
ScrapeNames == ProductNames \cup {<<>>, <<" ", "\t">>, NameLoneSurrogate}

\* !productName || productName.trim().length === 0
IsBlank(name) == Len(trim(name)) = 0

\* !result.error
HasNoError(result) == "error" \notin DOMAIN result

ScrapeFrame ==
  UNCHANGED <<op, productName, serpResponse, bestSimilarity, rawText, normalized,
              imageUrls, analysesIn, branches, products, response, apiKeys,
              contentVars, validateVars, pageVars, featureVars, imageAnalysis,
              apifyVars, settingsVars, firstSettled>>

\* The rest of scrapeProductData once a fetcher has settled: a rejection
\* rejects the call, an error-free result is returned, an error moves on
AfterFetcher(result, isLast) ==
  IF "rejected" \in DOMAIN result \/ HasNoError(result) THEN Some(result)
  ELSE IF isLast
       THEN Some(ErrorResult("Unable to find product data. All data sources failed."))
       ELSE None

\* lines 158-160: the name is empty or blank
RefuseBlankName ==
  /\ op = "scrapeProductData" /\ productResult = None /\ calls = <<>>
  /\ IsBlank(productName)
  /\ productResult' = Some(ErrorResult("Product name is required and cannot be empty."))
  /\ UNCHANGED calls
  /\ ScrapeFrame

\* lines 164-169: await fetchFromSerpApi(productName)
AwaitFetchFromSerpApi ==
  /\ op = "scrapeProductData" /\ productResult = None /\ calls = <<>>
  /\ ~IsBlank(productName)
  /\ LET result == FetchFromSerpApiOutcome(productName, Get(serpResponse)).result
     IN /\ calls' = Append(calls, ProviderCall("SerpAPI", result))
        /\ productResult' = AfterFetcher(result, FALSE)
  /\ ScrapeFrame

\* lines 175-179: await fetchFromAmazonApi(productName)
AwaitFetchFromAmazonApi ==
  /\ op = "scrapeProductData" /\ productResult = None /\ Len(calls) = 1
  /\ LET result == fetchFromAmazonApi(apiKeys.amazon)
     IN /\ calls' = Append(calls, ProviderCall("Amazon", result))
        /\ productResult' = AfterFetcher(result, FALSE)
  /\ ScrapeFrame

\* lines 185-198: await fetchFromEbayApi(productName), then the final error
AwaitFetchFromEbayApi ==
  /\ op = "scrapeProductData" /\ productResult = None /\ Len(calls) = 2
  /\ LET result == fetchFromEbayApi(apiKeys.ebay)
     IN /\ calls' = Append(calls, ProviderCall("eBay", result))
        /\ productResult' = AfterFetcher(result, TRUE)
  /\ ScrapeFrame

--------------------------------------------------------------------------
(* ApifyScraperService.waitForRunCompletion: the polling loop *)

\* const checkInterval = 3000
checkInterval == 3000

\* The maxWaitTime arguments of the model (the default is 120000)
MaxWaitTimes == {k * checkInterval : k \in 0..MaxPolls}

\* statusResponse.data.data.status, or the status request failing
RunStatuses == {"READY", "RUNNING", "SUCCEEDED", "FAILED", "ABORTED", "TIMED-OUT"}
TerminalFailures == {"FAILED", "ABORTED", "TIMED-OUT"}
StatusAnswers == RunStatuses \cup {"request failed"}

\* getRunResults: the first dataset item, or an Error when the request fails
\* or the dataset is empty
RunResultsAnswers == {"one item", "no items", "request failed"}

Request(request, answer) == [request |-> request, answer |-> answer]

\* How one pass through the try block ends: with a return, with an exception
\* (every one is received by the catch block inside the loop), or normally
TryBlock(status, results) ==
  IF status = "request failed" THEN [ends |-> "caught", value |-> "request failed"]
  ELSE IF status = "SUCCEEDED"
  THEN IF results = "one item" THEN [ends |-> "return", value |-> "scraped data"]
       ELSE [ends |-> "caught", value |-> results]
  ELSE IF status \in TerminalFailures THEN [ends |-> "caught", value |-> status]
  ELSE [ends |-> "normal", value |-> status]

ApifyFrame ==
  UNCHANGED <<maxWaitTime, serviceVars, contentVars, validateVars, matcherVars, pageVars,
              featureVars, apiKeys, imageAnalysis, settingsVars, firstSettled>>

\* One iteration of while (Date.now() - startTime < maxWaitTime): the status
\* request, the results request on SUCCEEDED, then the wait of checkInterval
\* in the try block or in the catch block
PollRunStatus ==
  /\ op = "waitForRunCompletion" /\ runResult = None
  /\ clock < maxWaitTime
  /\ \E status \in StatusAnswers, results \in RunResultsAnswers :
       LET try == TryBlock(status, results) IN
       /\ status # "SUCCEEDED" => results = "one item"
       /\ calls' = calls \o <<Request("status", status)>>
                    \o (IF status = "SUCCEEDED" THEN <<Request("results", results)>>
                        ELSE <<>>)
       /\ IF try.ends = "return"
          THEN runResult' = Some([returned |-> try.value]) /\ UNCHANGED clock
          ELSE runResult' = None /\ clock' = clock + checkInterval
  /\ ApifyFrame

\* throw new Error('Apify run timed out') after the loop
RunTimedOut ==
  /\ op = "waitForRunCompletion" /\ runResult = None
  /\ ~(clock < maxWaitTime)
  /\ runResult' = Some([threw |-> "Apify run timed out"])
  /\ UNCHANGED <<clock, calls>>
  /\ ApifyFrame

--------------------------------------------------------------------------
(* ApiKeySettings: the inputs, the saved flags and localStorage *)

\* Two of the keys of the apiKeys list
KeyNames == {"VITE_SERP_API_KEY", "VITE_AMAZON_API_KEY"}
\* What an input can hold, what localStorage can hold for a key
KeyValues == {<<>>, <<" ">>, <<"a">>, <<"b">>}

\* { ...prev, [keyName]: value }
Assign(prev, keyName, value) ==
  [x \in (DOMAIN prev) \cup {keyName} |-> IF x = keyName THEN value ELSE prev[x]]

\* a string in a condition: the empty string and undefined are falsy
TruthyValue(record, keyName) == keyName \in DOMAIN record /\ record[keyName] # <<>>

\* The effect run on mount: the inputs take the non-empty stored values
LoadSaved(storage) ==
  [x \in {k \in DOMAIN storage : storage[k] # <<>>} |-> storage[x]]

SettingsFrame ==
  UNCHANGED <<serviceVars, contentVars, validateVars, matcherVars, pageVars,
              featureVars, apiKeys, imageAnalysis, apifyVars, calls, firstSettled>>

handleKeyChange(keyName, value) ==
  /\ op = "ApiKeySettings"
  /\ apiKeyValues' = Assign(apiKeyValues, keyName, value)
  /\ UNCHANGED <<savedKeys, localStorage>>
  /\ SettingsFrame

saveApiKey(keyName) ==
  /\ op = "ApiKeySettings"
  /\ IF TruthyValue(apiKeyValues, keyName)
     THEN /\ localStorage' = Assign(localStorage, keyName, apiKeyValues[keyName])
          /\ savedKeys' = Assign(savedKeys, keyName, TRUE)
     ELSE UNCHANGED <<localStorage, savedKeys>>
  /\ UNCHANGED apiKeyValues
  /\ SettingsFrame

\* the entries of apiKeyValues whose value.trim() is not empty
NonBlankKeys == {k \in DOMAIN apiKeyValues : Len(trim(apiKeyValues[k])) > 0}

saveAllKeys ==
  /\ op = "ApiKeySettings"
  /\ localStorage' = [x \in (DOMAIN localStorage) \cup NonBlankKeys |->
                        IF x \in NonBlankKeys THEN apiKeyValues[x] ELSE localStorage[x]]
  /\ savedKeys' = [x \in (DOMAIN savedKeys) \cup NonBlankKeys |->
                     IF x \in NonBlankKeys THEN TRUE ELSE savedKeys[x]]
  /\ UNCHANGED apiKeyValues
  /\ SettingsFrame

getKeyStatus(keyName) ==
  IF ~TruthyValue(apiKeyValues, keyName) THEN "empty"
  ELSE IF keyName \in DOMAIN savedKeys /\ savedKeys[keyName] THEN "saved"
  ELSE "unsaved"

--------------------------------------------------------------------------
(* Specifications *)

IdleService ==
  /\ imageUrls = <<>> /\ analysesIn = <<>> /\ branches = <<>>
  /\ products = <<>> /\ response = None
IdleContent ==
  /\ text = <<>> /\ product = None /\ options = None /\ media = <<>>
  /\ rng = <<>> /\ parsed = None /\ openai = None /\ contentResponse = None
IdleValidate ==
  /\ productTitle = <<>> /\ imageAnalyses = <<>> /\ matchScore = None
  /\ semanticScores = <<>>
IdleMatcher ==
  /\ productName = <<>> /\ serpResponse = None /\ bestSimilarity = None
  /\ productResult = None /\ rawText = <<>> /\ normalized = <<>>
IdlePage ==
  /\ pageUrl = "" /\ pc = "idle" /\ errors = <<>> /\ warnings = <<>>
  /\ locals = None /\ generationResult = None
IdleFeatures == featureText = <<>> /\ features = None
IdleAnalyzeImage == apiKeys = None /\ imageAnalysis = None
IdleApify == maxWaitTime = 0 /\ clock = 0 /\ runResult = None
IdleSettings == apiKeyValues = <<>> /\ savedKeys = <<>> /\ localStorage = <<>>
IdleTools ==
  /\ firstSettled = None /\ calls = <<>>
  /\ IdleFeatures /\ IdleAnalyzeImage /\ IdleApify /\ IdleSettings

\* One call of searchProduct, analyzeImages or processMedia
Init ==
  /\ op \in {"searchProduct", "analyzeImages", "processMedia"}
  /\ imageUrls \in IF op = "searchProduct" THEN {<<>>}
                   ELSE {[i \in 1..n |-> i] : n \in 0..MaxImages}
  /\ analysesIn = IF op = "processMedia"
                  THEN [i \in 1..Len(imageUrls) |-> generateMockAnalysis(imageUrls[i])]
                  ELSE <<>>
  /\ branches = [i \in 1..(IF op = "searchProduct" THEN Len(Providers) ELSE Len(imageUrls))
                   |-> Pending]
  /\ products = <<>>
  /\ response = None
  /\ IdleContent
  /\ IdleValidate
  /\ IdleMatcher
  /\ IdlePage
  /\ IdleTools

Next ==
  \/ searchWithSerpAPI
  \/ searchAmazon
  \/ searchEbay
  \/ searchAliExpress
  \/ searchProduct
  \/ \E i \in 1..MaxImages : analyzeImage(i)
  \/ analyzeImages
  \/ \E i \in 1..MaxImages : processImage(i)
  \/ processMedia

Spec == Init /\ [][Next]_vars

\* One call of parseAdvancedAIResponse or of generateContent
InitContent ==
  /\ op \in {"parseAdvancedAIResponse", "generateContent"}
  /\ openai \in IF op = "generateContent" THEN {Some(o) : o \in OpenAIOutcomes} ELSE {None}
  /\ text \in IF op = "generateContent" /\ openai # Some("ok") THEN {<<>>} ELSE Texts
  /\ product \in Products
  /\ options \in OptionSets
  /\ media \in MediaSets
  /\ rng \in RandomStreams
  /\ parsed = None
  /\ contentResponse = None
  /\ IdleService
  /\ IdleValidate
  /\ IdleMatcher
  /\ IdlePage
  /\ IdleTools

NextContent ==
  \/ CallParseAdvancedAIResponse
  \/ generateContent

SpecContent == InitContent /\ [][NextContent]_vars

\* One call of validateProductMatch
InitValidate ==
  /\ op = "validateProductMatch"
  /\ productTitle \in ValidateTitles
  /\ imageAnalyses \in SeqsUpTo(Analyses, MaxAnalyses)
  /\ matchScore = None
  /\ semanticScores = <<>>
  /\ IdleService
  /\ IdleContent
  /\ IdleMatcher
  /\ IdlePage
  /\ IdleTools

NextValidate == CallValidateProductMatch

SpecValidate == InitValidate /\ [][NextValidate]_vars

\* One call of fetchFromSerpApi
InitMatch ==
  /\ op = "fetchFromSerpApi"
  /\ productName \in ProductNames
  /\ serpResponse \in {Some(r) : r \in SerpResponses}
  /\ bestSimilarity = None
  /\ productResult = None
  /\ rawText = <<>> /\ normalized = <<>>
  /\ IdleService
  /\ IdleContent
  /\ IdleValidate
  /\ IdlePage
  /\ IdleTools

NextMatch == fetchFromSerpApi

SpecMatch == InitMatch /\ [][NextMatch]_vars

\* normalizeText on one argument
InitNormalize ==
  /\ op = "normalizeText"
  /\ rawText \in SeqsUpTo(NormalizeAlphabet, MaxStringLen)
  /\ normalized = <<>>
  /\ productName = <<>> /\ serpResponse = None /\ bestSimilarity = None
  /\ productResult = None
  /\ IdleService
  /\ IdleContent
  /\ IdleValidate
  /\ IdlePage
  /\ IdleTools

NextNormalize == CallNormalizeText

SpecNormalize == InitNormalize /\ [][NextNormalize]_vars

\* One call of generateLandingPage
InitPage ==
  /\ op = "generateLandingPage"
  /\ pageUrl \in {"https://shop.example/p/1", "not a url"}
  /\ pc = "searchProduct"
  /\ errors = <<>>
  /\ warnings = <<>>
  /\ locals = StartLocals
  /\ generationResult = None
  /\ IdleService
  /\ IdleContent
  /\ IdleValidate
  /\ IdleMatcher
  /\ IdleTools

NextPage ==
  \/ AwaitSearchProduct
  \/ AwaitAnalyzeImages
  \/ AwaitValidateProductMatch
  \/ AwaitProcessMedia
  \/ AwaitGenerateContent
  \/ AwaitSetupIntegrations

SpecPage == InitPage /\ [][NextPage]_vars


\* One call of extractFeatures, of either service
InitFeatures ==
  /\ op \in FeatureServices
  /\ featureText \in FeatureTexts
  /\ features = None
  /\ IdleService
  /\ IdleContent
  /\ IdleValidate
  /\ IdleMatcher
  /\ IdlePage
  /\ firstSettled = None /\ calls = <<>>
  /\ IdleAnalyzeImage /\ IdleApify /\ IdleSettings

NextFeatures == CallExtractFeatures

SpecFeatures == InitFeatures /\ [][NextFeatures]_vars


\* One call of analyzeImage
InitAnalyzeImage ==
  /\ op = "analyzeImage"
  /\ imageUrls \in {<<u>> : u \in 1..MaxImages}
  /\ analysesIn = <<>> /\ branches = <<>> /\ products = <<>> /\ response = None
  /\ apiKeys \in [googleVision : GoogleVisionKeys, clarifai : ClarifaiKeys]
  /\ imageAnalysis = None
  /\ calls = <<>> /\ firstSettled = None
  /\ IdleContent
  /\ IdleValidate
  /\ IdleMatcher
  /\ IdlePage
  /\ IdleFeatures /\ IdleApify /\ IdleSettings

NextAnalyzeImage ==
  \/ AwaitGoogleVision
  \/ AwaitClarifai
  \/ ReturnMockAnalysis

SpecAnalyzeImage == InitAnalyzeImage /\ [][NextAnalyzeImage]_vars


\* One call of scrapeProductData
InitScrape ==
  /\ op = "scrapeProductData"
  /\ productName \in ScrapeNames
  /\ serpResponse \in {Some(r) : r \in SerpResponses}
  /\ apiKeys \in [amazon : AmazonKeys, ebay : EbayKeys]
  /\ bestSimilarity = None
  /\ productResult = None
  /\ rawText = <<>> /\ normalized = <<>>
  /\ calls = <<>> /\ firstSettled = None
  /\ imageAnalysis = None
  /\ IdleService
  /\ IdleContent
  /\ IdleValidate
  /\ IdlePage
  /\ IdleFeatures /\ IdleApify /\ IdleSettings

NextScrape ==
  \/ RefuseBlankName
  \/ AwaitFetchFromSerpApi
  \/ AwaitFetchFromAmazonApi
  \/ AwaitFetchFromEbayApi

SpecScrape == InitScrape /\ [][NextScrape]_vars


\* One call of waitForRunCompletion
InitApify ==
  /\ op = "waitForRunCompletion"
  /\ maxWaitTime \in MaxWaitTimes
  /\ clock = 0
  /\ runResult = None
  /\ calls = <<>> /\ firstSettled = None
  /\ IdleService
  /\ IdleContent
  /\ IdleValidate
  /\ IdleMatcher
  /\ IdlePage
  /\ IdleFeatures /\ IdleAnalyzeImage /\ IdleSettings

NextApify ==
  \/ PollRunStatus
  \/ RunTimedOut

SpecApify == InitApify /\ [][NextApify]_vars


\* The ApiKeySettings component after its mount effect
InitSettings ==
  /\ op = "ApiKeySettings"
  /\ localStorage \in UNION {[D -> KeyValues] : D \in SUBSET KeyNames}
  /\ apiKeyValues = LoadSaved(localStorage)
  /\ savedKeys = <<>>
  /\ calls = <<>> /\ firstSettled = None
  /\ IdleService
  /\ IdleContent
  /\ IdleValidate
  /\ IdleMatcher
  /\ IdlePage
  /\ IdleFeatures /\ IdleAnalyzeImage /\ IdleApify

NextSettings ==
  \/ \E keyName \in KeyNames, value \in KeyValues : handleKeyChange(keyName, value)
  \/ \E keyName \in KeyNames : saveApiKey(keyName)
  \/ saveAllKeys

SpecSettings == InitSettings /\ [][NextSettings]_vars

--------------------------------------------------------------------------
(* Claims about searchProduct and the fan-out operations (under Spec) *)

SearchDone == op = "searchProduct" /\ IsSome(response)

\* A provider whose promise rejected, or resolved with success = false, or
\* resolved with no candidate
NoCandidates(b) ==
  \/ b.status = "rejected"
  \/ b.status = "fulfilled" /\ (~b.value.success \/ Len(b.value.data) = 0)

\* C1: when every provider failed or returned zero candidates, searchProduct
\* resolves with success = true and exactly one candidate, the mock product;
\* and the data list of a response is never empty.
C1_AllProvidersFailGivesOneMock ==
  SearchDone =>
    /\ Len(Get(response).data) >= 1
    /\ (\A i \in 1..Len(branches) : NoCandidates(branches[i])) =>
         /\ Get(response).success
         /\ Len(Get(response).data) = 1
         /\ Get(response).data[1].id = "mock_"
         /\ Get(response).data[1].title \in Range(productNames)

C1_Witness ==
  /\ SearchDone
  /\ branches[1].status = "rejected"
  /\ branches[2].status = "fulfilled"
  /\ branches[3].status = "rejected"
  /\ Get(response).data[1].id = "mock_"

\* C2: whichever providers fail, the call succeeds and every candidate of a
\* provider that succeeded reaches deduplication (is in `products`) and is
\* represented in the result: it is returned, or a candidate with the same
\* deduplication key is.
C2_FailuresDiscardNothing ==
  SearchDone =>
    /\ Get(response).success
    /\ \A i \in 1..Len(branches) :
         (branches[i].status = "fulfilled" /\ branches[i].value.success) =>
           \A k \in 1..Len(branches[i].value.data) :
             LET c == branches[i].value.data[k] IN
             /\ c \in Range(products)
             /\ \E d \in Range(Get(response).data) :
                  normalizedTitle(d.title) = normalizedTitle(c.title)

C2_Witness ==
  /\ SearchDone
  /\ branches[1].status = "fulfilled"
  /\ Len(branches[1].value.data) = 2
  /\ branches[2].status = "rejected"
  /\ branches[4].status = "rejected"
  /\ Len(Get(response).data) = 2

\* C3: searchProduct, analyzeImages and processMedia produce their result only
\* when no fanned-out branch is still pending, in whatever order they settled.
C3_ResultOnlyAfterAllSettled ==
  IsSome(response) => \A i \in 1..Len(branches) : branches[i].status # "pending"

C3_Witness ==
  /\ op = "processMedia"
  /\ IsSome(response)
  /\ Len(branches) = 2
  /\ branches[1].value.success
  /\ ~branches[2].value.success

\* The first candidate of `products` whose normalizeText title is t
FirstWithNormalizedTitle(t) ==
  products[CHOOSE k \in 1..Len(products) :
             /\ normalizeText(products[k].title) = t
             /\ \A j \in 1..(k - 1) : normalizeText(products[j].title) # t]

\* C4: two candidates are duplicates exactly when normalizeText of their titles
\* is equal; of each group of duplicates the first in discovery order is
\* returned and nothing else, and every group is returned.
C4_DedupByNormalizeText ==
  (SearchDone /\ Len(products) > 0) =>
    LET data == Get(response).data IN
    /\ \A i, j \in 1..Len(data) :
         i # j => normalizeText(data[i].title) # normalizeText(data[j].title)
    /\ \A k \in 1..Len(products) :
         FirstWithNormalizedTitle(normalizeText(products[k].title)) \in Range(data)

\* The position of a returned candidate in discovery order
DiscoveryIndex(c) == CHOOSE k \in 1..Len(products) : products[k] = c

\* C5: the returned list is in non-increasing order of rating * ln(reviewCount + 1),
\* candidates of equal score keep their discovery order, and a candidate with
\* rating 5 and 1000 reviews precedes one with rating 4.9 and 1 review.
C5_RankedByScoreStable ==
  (SearchDone /\ Len(products) > 0) =>
    LET data == Get(response).data IN
    \A i, j \in 1..Len(data) :
      i < j =>
        /\ data[i].rating * LogMilli(data[i].reviewCount + 1)
             >= data[j].rating * LogMilli(data[j].reviewCount + 1)
        /\ (data[i].rating * LogMilli(data[i].reviewCount + 1)
              = data[j].rating * LogMilli(data[j].reviewCount + 1))
             => DiscoveryIndex(data[i]) < DiscoveryIndex(data[j])
        /\ ~(data[i].rating = 4900 /\ data[i].reviewCount = 1
             /\ data[j].rating = 5000 /\ data[j].reviewCount = 1000)

C5_Witness ==
  /\ SearchDone
  /\ Len(products) = 2
  /\ products[1].rating = 4900 /\ products[1].reviewCount = 1
  /\ products[2].rating = 5000 /\ products[2].reviewCount = 1000
  /\ Get(response).data = <<products[2], products[1]>>

--------------------------------------------------------------------------
(* Claims about parseAdvancedAIResponse (under SpecContent) *)

ParseDone == op = "parseAdvancedAIResponse" /\ IsSome(parsed)
ReturnedByJson ==
  /\ ParseDone
  /\ Get(parsed).status = "returned"
  /\ Get(parsed).by = "structureAdvancedContent"

\* C6: the content parser never raises; when the text is not valid JSON the
\* content object comes from the text-extraction fallback.
C6_ParserNeverRaises ==
  ParseDone =>
    /\ Get(parsed).status = "returned"
    /\ ~ParseCleaned(text).ok => Get(parsed).by = "extractAdvancedContentFromText"

\* C7: for the empty raw output every field of the returned content is
\* populated, pricing.discount too when the product has an original price.
C7_EmptyTextFullyPopulated ==
  (ParseDone /\ text = <<>>) =>
    /\ Get(parsed).status = "returned"
    /\ LET c == Get(parsed).content IN
       /\ c.hero.headline # <<>>
       /\ c.hero.subheadline # <<>>
       /\ c.hero.cta # <<>>
       /\ c.product.description # <<>>
       /\ IsSome(c.pricing.urgency)
       /\ IsSome(c.pricing.guarantee)
       /\ IsSome(product.originalPrice) => IsSome(c.pricing.discount)

\* The raw output holds a JSON object in the nested shape: every field under
\* its nested key with the document's value
NestedShape ==
  /\ ParseCleaned(text).ok
  /\ ParseCleaned(text).type = "object"
  /\ \A f \in Fields : ParseCleaned(text).members.nested[f] = Some(JsonValue("nested", f))

FieldsOtherThanReviewsAndUpsellsEqualJson(c) ==
  /\ c.hero.headline = JsonValue("nested", "headline")
  /\ c.hero.subheadline = JsonValue("nested", "subheadline")
  /\ c.hero.cta = JsonValue("nested", "cta")
  /\ c.product.description = JsonValue("nested", "description")
  /\ c.product.features = JsonValue("nested", "features")
  /\ c.pricing.urgency = Some(JsonValue("nested", "urgency"))
  /\ c.pricing.guarantee = Some(JsonValue("nested", "guarantee"))
  /\ c.socialProof = JsonSocialProof

\* C8 as stated: for a JSON object in the nested shape every listed field of
\* the result equals the JSON field, for every setting of the options.
C8_EveryFieldEqualsJson ==
  (ParseDone /\ NestedShape) =>
    /\ Get(parsed).status = "returned"
    /\ LET c == Get(parsed).content IN
       /\ FieldsOtherThanReviewsAndUpsellsEqualJson(c)
       /\ c.upsells = JsonUpsells
       /\ Len(c.reviews) = Len(JsonReviews)
       /\ \A i \in 1..Len(JsonReviews) :
            /\ Some(c.reviews[i].name) = JsonReviews[i].name
            /\ Some(c.reviews[i].rating) = JsonReviews[i].rating
            /\ Some(c.reviews[i].comment) = JsonReviews[i].comment

\* C8, amended: headline, subheadline, cta, description, features, urgency,
\* guarantee and socialProof equal the JSON fields for every setting of the
\* options; upsells equals the JSON upsells when includeUpsells is set and is
\* empty otherwise; reviews has one entry per JSON review that keeps its
\* non-empty name, non-zero rating and comment (or text) and takes
\* 'Anonymous Customer', 5 and 'Great product!' for a missing one.
C8_FieldsEqualJsonUpsellsGated ==
  (ParseDone /\ NestedShape) =>
    /\ Get(parsed).status = "returned"
    /\ LET c == Get(parsed).content IN
       /\ FieldsOtherThanReviewsAndUpsellsEqualJson(c)
       /\ c.upsells = IF options.includeUpsells THEN JsonUpsells ELSE <<>>
       /\ Len(c.reviews) = Len(JsonReviews)
       /\ \A i \in 1..Len(JsonReviews) :
            /\ c.reviews[i].name = IF JsonReviews[i].name \in {None, Some(<<>>)}
                                   THEN <<"Anonymous Customer">>
                                   ELSE Get(JsonReviews[i].name)
            /\ c.reviews[i].rating = IF JsonReviews[i].rating \in {None, Some(0)}
                                     THEN 5 ELSE Get(JsonReviews[i].rating)
            /\ c.reviews[i].comment =
                 IF JsonReviews[i].comment \notin {None, Some(<<>>)}
                 THEN Get(JsonReviews[i].comment)
                 ELSE IF JsonReviews[i].text \notin {None, Some(<<>>)}
                 THEN Get(JsonReviews[i].text)
                 ELSE <<"Great product!">>
            /\ c.reviews[i].verified

C8_Witness ==
  /\ ParseDone /\ NestedShape
  /\ ~options.includeUpsells
  /\ Len(text) = 2 /\ text[1].t = "fence"
  /\ IsSome(ParseCleaned(text).members.flat["headline"])
  /\ Get(parsed).content.upsells = <<>>
  /\ Get(parsed).content.hero.headline = JsonValue("nested", "headline")

\* Neither key of the field has a usable (truthy) value in the parsed object
AbsentUnderBothKeys(f) ==
  LET d == ParseCleaned(text).members IN
  /\ d.nested[f] \in {None, Some(<<>>)}
  /\ f \in TwoKeyFields => d.flat[f] \in {None, Some(<<>>)}

--------------------------------------------------------------------------
(* Claims about validateProductMatch (under SpecValidate) *)

ValidateDone == op = "validateProductMatch" /\ IsSome(matchScore)

\* C10: with no analysis, or with isProductImage false in every analysis, the
\* score is exactly 0.5, for every title.
C10_NoProductImageGivesHalf ==
  (ValidateDone /\ \A i \in 1..Len(imageAnalyses) : ~imageAnalyses[i].isProductImage) =>
    /\ Get(matchScore).den # 0
    /\ 2 * Get(matchScore).num = Get(matchScore).den

C10_Witness ==
  /\ ValidateDone
  /\ productTitle = TitleSmartDevice
  /\ Len(imageAnalyses) = 2
  /\ \A i \in 1..2 :
       /\ ~imageAnalyses[i].isProductImage
       /\ imageAnalyses[i].labels = <<LabelDevice, LabelSmart>>
       /\ imageAnalyses[i].confidence = 100
  /\ Get(matchScore) = Fraction(1, 2)

\* The lower-cased words of the title, as validateProductMatch splits them
TitleWords == splitWhitespace(toLowerCase(productTitle))
LowerLabels(a) == [j \in 1..Len(a.labels) |-> toLowerCase(a.labels[j])]

\* The category buckets whose keyword set both the title words and the labels match
MatchingBuckets(a) ==
  {c \in 1..Len(categoryMappings) :
     /\ \E w \in Range(TitleWords) : w \in categoryMappings[c]
     /\ \E l \in Range(LowerLabels(a)) :
          \E keyword \in categoryMappings[c] : includes(l, keyword)}

\* Every word of the title is contained in, or contains, some label
FullTokenOverlap(a) ==
  \A w \in Range(TitleWords) :
    \E l \in Range(LowerLabels(a)) : includes(l, w) \/ includes(w, l)

OneFullOverlapImage ==
  /\ ValidateDone
  /\ Len(imageAnalyses) = 1
  /\ imageAnalyses[1].isProductImage
  /\ imageAnalyses[1].confidence = 100
  /\ FullTokenOverlap(imageAnalyses[1])

\* C11 as stated: one product image with confidence 1.0 whose labels overlap
\* every title word gives the score 1.0, for every such title.
C11_FullOverlapGivesOne ==
  OneFullOverlapImage =>
    /\ Get(matchScore).den # 0
    /\ Get(matchScore).num = Get(matchScore).den

\* C11 as amended: one product image with confidence 1.0 and full token
\* overlap gives 1.0 when some category bucket is matched by both the title
\* and the labels, and 0.7 when none is.
C11_FullOverlapGivesOneOrSevenTenths ==
  OneFullOverlapImage =>
    /\ Get(matchScore).den # 0
    /\ IF MatchingBuckets(imageAnalyses[1]) # {}
       THEN Get(matchScore).num = Get(matchScore).den
       ELSE 10 * Get(matchScore).num = 7 * Get(matchScore).den

C11_Witness ==
  /\ OneFullOverlapImage
  /\ productTitle = TitleRedShoe
  /\ imageAnalyses[1].labels = <<LabelShoe, LabelRed>>
  /\ MatchingBuckets(imageAnalyses[1]) = {}
  /\ 10 * Get(matchScore).num = 7 * Get(matchScore).den

\* The per-image score (0.7 * direct + 0.3 * semantic) * confidence of a counted
\* analysis, as a multiple of 1 / (1000 * Len(TitleWords))
PerImageScore(a) ==
  (7 * directMatches(TitleWords, LowerLabels(a))
     + 3 * calculateSemanticMatch(TitleWords, LowerLabels(a)) * Len(TitleWords))
  * a.confidence

EligibleIndexes == {i \in 1..Len(imageAnalyses) : imageAnalyses[i].isProductImage}

RECURSIVE SumOver(_)
SumOver(I) ==
  IF I = {} THEN 0
  ELSE LET i == CHOOSE x \in I : TRUE
       IN PerImageScore(imageAnalyses[i]) + SumOver(I \ {i})

\* C12: for every title and list of analyses the call resolves with a score
\* in [0,1] that is the mean of the per-image scores of the analyses flagged
\* as product images (0.5 when there is none).
C12_MeanOfEligibleScoresInUnitInterval ==
  ValidateDone =>
    /\ Get(matchScore).den > 0
    /\ 0 <= Get(matchScore).num
    /\ Get(matchScore).num <= Get(matchScore).den
    /\ IF EligibleIndexes = {}
       THEN 2 * Get(matchScore).num = Get(matchScore).den
       ELSE Get(matchScore).num * (1000 * Len(TitleWords) * Cardinality(EligibleIndexes))
              = SumOver(EligibleIndexes) * Get(matchScore).den

C12_Witness ==
  /\ ValidateDone
  /\ productTitle = TitleCar
  /\ Len(imageAnalyses) = 2
  /\ imageAnalyses[1] = [labels |-> <<LabelCarpet>>, isProductImage |-> TRUE, confidence |-> 100]
  /\ imageAnalyses[2] = [labels |-> <<LabelShoe, LabelRed>>, isProductImage |-> TRUE, confidence |-> 50]
  /\ 2 * Get(matchScore).num = Get(matchScore).den

\* C13 as stated: the semantic score of each counted image is k/6, where k is
\* the number of category buckets matched by both the title and the labels.
C13_SemanticScoreIsSixthsOfBuckets ==
  ValidateDone =>
    LET eligible == SelectSeq(imageAnalyses, LAMBDA a : a.isProductImage) IN
    /\ Len(semanticScores) = Len(eligible)
    /\ \A i \in 1..Len(eligible) :
         6 * semanticScores[i] = Cardinality(MatchingBuckets(eligible[i]))

--------------------------------------------------------------------------
(* Claims about the product matcher (under SpecMatch and SpecNormalize) *)

MatchDone == op = "fetchFromSerpApi" /\ IsSome(productResult)
LoopRan ==
  /\ MatchDone
  /\ Get(serpResponse).kind = "data"
  /\ Get(serpResponse).shopping_results # <<>>

\* The similarity of the i-th result's title to the normalized query
SimilarityOf(i) ==
  compareTwoStrings(normalizeText(OrElse(Get(serpResponse).shopping_results[i].title, <<>>)),
                    normalizeText(productName))

\* The first result, in list order, whose similarity no other result exceeds
FirstMaximal ==
  CHOOSE i \in 1..Len(Get(serpResponse).shopping_results) :
    /\ \A j \in 1..Len(Get(serpResponse).shopping_results) :
         ~GreaterThan(SimilarityOf(j), SimilarityOf(i))
    /\ \A j \in 1..(i - 1) : GreaterThan(SimilarityOf(i), SimilarityOf(j))

\* C14: a result is returned as the match only when its similarity is strictly
\* above 0.8; with a best similarity of 0.8 or less an error value is returned;
\* the returned match is the first result of maximal similarity.
C14_AcceptedOnlyAboveThreshold ==
  LoopRan =>
    LET results == Get(serpResponse).shopping_results
        best == SimilarityOf(FirstMaximal)
        r == Get(productResult)
    IN IF 5 * best.num > 4 * best.den
       THEN /\ "error" \notin DOMAIN r
            /\ r.title = results[FirstMaximal].title
            /\ r.link = results[FirstMaximal].link
       ELSE /\ DOMAIN r = {"error"}

\* a single result whose similarity is exactly 0.8 is refused
C14_Witness ==
  /\ LoopRan
  /\ productName = NameAbcd
  /\ Len(Get(serpResponse).shopping_results) = 1
  /\ Get(serpResponse).shopping_results[1].title = Some(<<"a","b","c">>)
  /\ SimilarityOf(1) = Fraction(4, 5)
  /\ DOMAIN Get(productResult) = {"error"}

\* C15 as stated: an accepted match is handed to the caller together with its
\* raw similarity score.
C15_AcceptedMatchExposesSimilarity ==
  (MatchDone /\ "error" \notin DOMAIN Get(productResult)) =>
    \E f \in DOMAIN Get(productResult) : f \in {"similarity", "score", "bestSimilarity"}

NormalizeDone == op = "normalizeText" /\ Len(normalized) = 2

\* C16: normalizeText applied to its own result gives that result again.
C16_NormalizeTextIdempotent ==
  NormalizeDone => normalized[2] = normalized[1]

C16_Witness ==
  /\ NormalizeDone
  /\ rawText = <<" ", "B", "!", "\t">>
  /\ normalized[1] = <<"b">>
  /\ normalized[2] = <<"b">>

ArabicOf(s) == SelectSeq(s, LAMBDA c : c \in ArabicChars)

--------------------------------------------------------------------------
(* Claims about generateLandingPage (under SpecPage) *)

PageDone == op = "generateLandingPage" /\ pc = "done"

\* C18: whatever its steps do, generateLandingPage resolves with a
\* GenerationResult; when a step raised, the result has success = false, the
\* fallback product and content, validationScore 0, mediaProcessed 0 and at
\* least one entry in errors.
C18_AlwaysResolvesFallbackOnRaise ==
  /\ (op = "generateLandingPage" /\ pc # "done") => ENABLED NextPage
  /\ PageDone =>
       /\ IsSome(generationResult)
       /\ IF IsSome(locals.error)
          THEN /\ Get(generationResult).success = FALSE
               /\ Get(generationResult).productData = createFallbackProduct(pageUrl)
               /\ Get(generationResult).landingPageContent = createFallbackContent
               /\ Get(generationResult).validationScore = 0
               /\ Get(generationResult).mediaProcessed = 0
               /\ IsSome(Get(generationResult).errors)
               /\ Len(Get(Get(generationResult).errors)) >= 1
          ELSE Get(generationResult).success = TRUE

\* integrations reject with a value that is not an Error, after every earlier
\* step succeeded
C18_Witness ==
  /\ PageDone
  /\ IsSome(locals.landingPageContent)
  /\ locals.error = Some(None)
  /\ Get(generationResult).success = FALSE
  /\ Get(generationResult).errors = Some(<<"Unknown error">>)

--------------------------------------------------------------------------
(* Claims about the content the content service returns (under SpecContent) *)

ContentDone == op = "generateContent" /\ IsSome(contentResponse)

\* The content objects handed back in this state
ReturnedContents ==
  (IF ParseDone /\ Get(parsed).status = "returned" THEN {Get(parsed).content} ELSE {})
  \cup (IF ContentDone THEN {Get(contentResponse).data} ELSE {})

\* The content was built from the parsed JSON of the model output
BuiltFromJson ==
  \/ ReturnedByJson
  \/ ContentDone /\ openai = Some("ok") /\ Get(contentResponse).success

InFixedRanges(sp) ==
  /\ sp.totalCustomers \in 10000..59999
  /\ sp.countriesServed \in 25..99
  /\ sp.monthlyUsers \in 5000..24999

\* C19 as stated: in every content object returned, totalCustomers is in
\* [10000, 60000), countriesServed in [25, 100) and monthlyUsers in
\* [5000, 25000), whatever the model output contained.
C19_SocialProofInFixedRanges ==
  \A c \in ReturnedContents : InFixedRanges(c.socialProof)

\* C19 as amended: the counters are in their ranges whenever the service
\* generates them (mock content, or JSON without a socialProof member); a
\* socialProof member of the JSON is handed back as it is.
C19_SocialProofFromJsonOrInFixedRanges ==
  \A c \in ReturnedContents :
    IF BuiltFromJson /\ IsSome(ParseCleaned(text).members.nested["socialProof"])
    THEN c.socialProof = Get(ParseCleaned(text).members.nested["socialProof"])
    ELSE InFixedRanges(c.socialProof)

\* the request failed: mock content with generated counters
C19_Witness ==
  /\ ContentDone
  /\ openai = Some("fetch rejected")
  /\ ~Get(contentResponse).success
  /\ Get(contentResponse).data.socialProof.totalCustomers > 10000
  /\ InFixedRanges(Get(contentResponse).data.socialProof)

\* round((original - current) / original * 100) for prices in hundredths
PercentOff(current, original) ==
  ((original - current) * 200 + original) \div (2 * original)

\* C20: when the product has an original price above its price, pricing.discount
\* of the returned content is the integer percentage off followed by "%"
\* ("20%" for "$79.99" and "$99.99").
C20_DiscountIsIntegerPercentString ==
  \A c \in ReturnedContents :
    (IsSome(product.originalPrice)
     /\ ParsePrice(Get(product.originalPrice)) > ParsePrice(product.price)
     /\ ParsePrice(product.price) > 0)
    => /\ c.pricing.discount
            = Some(IntToString(PercentOff(ParsePrice(product.price),
                                          ParsePrice(Get(product.originalPrice))))
                   \o <<"%">>)
       /\ (product.price = PriceNow /\ Get(product.originalPrice) = PriceWas)
            => c.pricing.discount = Some(<<"2", "0", "%">>)

--------------------------------------------------------------------------
(* C21: feature extraction *)

FeaturesDone == op \in FeatureServices /\ IsSome(features)

\* the keyword occurs in the text, letter case ignored
OccursIn(keyword, description) == includes(toLowerCase(description), keyword)

\* the dictionary keywords occurring in the text, in dictionary order
OccurringKeywords(featureKeywords, description) ==
  SelectSeq(featureKeywords, LAMBDA k : OccursIn(k, description))

NoDuplicates(s) == \A i, j \in 1..Len(s) : s[i] = s[j] => i = j

\* C21: extractFeatures returns a non-empty list of at most 5 distinct
\* entries: the first five dictionary keywords occurring in the text,
\* capitalized and in dictionary order, or the generic list exactly when no
\* dictionary keyword occurs in the text.
C21_FeaturesAreCappedKeywordsOrGeneric ==
  FeaturesDone =>
    LET occurring == OccurringKeywords(FeatureKeywordsOf(op), featureText)
        result == Get(features)
    IN /\ Len(result) >= 1 /\ Len(result) <= 5
       /\ NoDuplicates(result)
       /\ (result = GenericFeaturesOf(op)) <=> (occurring = <<>>)
       /\ occurring # <<>> =>
            /\ Len(result) = (IF Len(occurring) < 5 THEN Len(occurring) ELSE 5)
            /\ \A i \in 1..Len(result) :
                 /\ toLowerCase(result[i]) = occurring[i]
                 /\ result[i][1] = ToUpperChar(occurring[i][1])
                 /\ SubSeq(result[i], 2, Len(result[i]))
                      = SubSeq(occurring[i], 2, Len(occurring[i]))

\* a text in which six dictionary keywords occur was scanned
C21_Witness ==
  /\ FeaturesDone
  /\ Len(OccurringKeywords(FeatureKeywordsOf(op), featureText)) > 5
  /\ Len(Get(features)) = 5

--------------------------------------------------------------------------
(* C22: analyzeImages *)

AnalyzeImagesDone == op = "analyzeImages" /\ IsSome(response)
ImageFailed(i) == ~(branches[i].status = "fulfilled" /\ branches[i].value.success)

\* C22: analyzeImages resolves with success = true and exactly one analysis
\* per input URL, at the index of its URL: the analysis of the image when it
\* succeeded, the mock analysis of that URL when it failed.
C22_OneAnalysisPerUrlInOrder ==
  AnalyzeImagesDone =>
    LET r == Get(response) IN
      /\ r.success = TRUE
      /\ Len(r.data) = Len(imageUrls)
      /\ \A i \in 1..Len(imageUrls) :
           /\ r.data[i].url = imageUrls[i]
           /\ IF ImageFailed(i) THEN r.data[i].by = "mock"
              ELSE r.data[i] = branches[i].value.data

\* two images were analysed, the first failed and the second succeeded
C22_Witness ==
  /\ AnalyzeImagesDone
  /\ Len(imageUrls) = 2
  /\ ImageFailed(1) /\ ~ImageFailed(2)
  /\ Get(response).data[2].by = "Google Vision"

--------------------------------------------------------------------------
(* C23: heuristic line extraction (under SpecContent) *)

\* the content extractAdvancedContentFromText builds from the call's arguments
HeuristicContent == extractAdvancedContentFromText(text, product, options, media, rng)

\* the field as the claim resolves it: keyword match, else the lines, else the default
FromKeywordOrLines(keywords, first, last, default) ==
  IF IsSome(extractSection(text, keywords)) THEN Get(extractSection(text, keywords))
  ELSE IF Len(text) >= first
       THEN JoinLines(SubSeq(text, first, IF Len(text) < last THEN Len(text) ELSE last))
       ELSE default

\* C23 as stated: on a raw output that is not JSON the parser returns the
\* heuristic content, whose headline is the keyword match or else line 1,
\* whose subheadline is the keyword match or else line 2 and whose description
\* is the keyword match or else lines 3 to 5 joined; the static default is
\* taken only when the text has no such line.
C23_HeuristicLinesSupplyFields ==
  (ParseDone /\ ~ParseCleaned(text).ok) =>
    /\ HeuristicContent.hero.headline
         = FromKeywordOrLines(<<"headline", "title">>, 1, 1, DefaultHeadline(product))
    /\ HeuristicContent.hero.subheadline
         = FromKeywordOrLines(<<"subheadline", "subtitle">>, 2, 2, DefaultSubheadline)
    /\ HeuristicContent.product.description
         = FromKeywordOrLines(<<"description", "about">>, 3, 5, product.description)
    /\ Get(parsed) = Returned(HeuristicContent, "extractAdvancedContentFromText")

--------------------------------------------------------------------------
(* C24: provider fallback order of analyzeImage (under SpecAnalyzeImage) *)

AnalyzeImageDone == op = "analyzeImage" /\ IsSome(imageAnalysis)
Failed(provider) ==
  \E i \in 1..Len(calls) :
    /\ calls[i].provider = provider
    /\ calls[i].outcome.threw \/ ~calls[i].outcome.value.success

\* C24 as stated: Google Vision is called first when configured; when it
\* fails and a Clarifai key is configured, Clarifai is called next; the mock
\* analysis is the answer only after every configured provider has failed.
C24_MockOnlyAfterEveryConfiguredProviderFailed ==
  /\ \A i \in 1..Len(calls) :
       calls[i].provider = "Google Vision" => i = 1
  /\ AnalyzeImageDone =>
       /\ googleVisionConfigured => Called("Google Vision")
       /\ (Failed("Google Vision") /\ clarifaiConfigured) => Called("Clarifai")
       /\ Get(imageAnalysis).data.by = "mock" =>
            /\ googleVisionConfigured => Failed("Google Vision")
            /\ clarifaiConfigured => Failed("Clarifai")

--------------------------------------------------------------------------
(* C25: scrapeProductData (under SpecScrape) *)

ScrapeDone == op = "scrapeProductData" /\ IsSome(productResult)
ScrapeOrder == <<"SerpAPI", "Amazon", "eBay">>

\* C25 as stated: the providers are called in the order SerpAPI, Amazon, eBay,
\* each only after every earlier one answered an error value; the first
\* error-free result is returned unchanged; a blank name is refused with an
\* error before any call; when all three fail an error value is returned; the
\* call never rejects.
C25_ProvidersInOrderAndNeverRejects ==
  /\ op = "scrapeProductData" =>
       /\ Len(calls) <= 3
       /\ \A i \in 1..Len(calls) :
            /\ calls[i].provider = ScrapeOrder[i]
            /\ \A j \in 1..(i - 1) : "error" \in DOMAIN calls[j].outcome
  /\ ScrapeDone =>
       LET r == Get(productResult) IN
       /\ "rejected" \notin DOMAIN r
       /\ IsBlank(productName) => (calls = <<>> /\ "error" \in DOMAIN r)
       /\ ~IsBlank(productName) =>
            /\ calls # <<>>
            /\ IF HasNoError(calls[Len(calls)].outcome)
               THEN r = calls[Len(calls)].outcome
               ELSE Len(calls) = 3 /\ "error" \in DOMAIN r

--------------------------------------------------------------------------
(* C26: generateContent (under SpecContent) *)

\* the model text parses to a JSON value structureAdvancedContent can read
ModelTextUsable == ParseCleaned(text).ok /\ ParseCleaned(text).type # "null"

--------------------------------------------------------------------------
(* C27: waitForRunCompletion (under SpecApify) *)

StatusSeen(i, statuses) == calls[i].request = "status" /\ calls[i].answer \in statuses

\* C27 as stated: polling stops at the first terminal status: after SUCCEEDED
\* the only further request is the one for the results, after FAILED, ABORTED
\* or TIMED-OUT the call has failed and no request follows; the call fails
\* with a timeout only once maxWaitTime has elapsed.
C27_PollingStopsAtTerminalStatus ==
  op = "waitForRunCompletion" =>
    /\ \A i \in 1..Len(calls) :
         /\ StatusSeen(i, TerminalFailures) =>
              /\ i = Len(calls)
              /\ IsSome(runResult) /\ "threw" \in DOMAIN Get(runResult)
              /\ Get(runResult).threw # "Apify run timed out"
         /\ StatusSeen(i, {"SUCCEEDED"}) =>
              /\ i + 1 = Len(calls) /\ calls[i + 1].request = "results"
              /\ IsSome(runResult)
    /\ (IsSome(runResult) /\ Get(runResult) = [threw |-> "Apify run timed out"])
         => clock >= maxWaitTime

--------------------------------------------------------------------------
(* C28: searchProduct and the order in which the providers settle *)

SearchProductDone == op = "searchProduct" /\ IsSome(response)

\* the candidates a provider contributed, by its position in Providers
CandidatesOf(i) ==
  IF branches[i].status = "fulfilled" /\ branches[i].value.success
  THEN branches[i].value.data ELSE <<>>
InDiscoveryOrder == CandidatesOf(1) \o CandidatesOf(2) \o CandidatesOf(3) \o CandidatesOf(4)

\* C28: whichever provider settles first, the candidates are collected in the
\* order SerpAPI, Amazon, eBay, AliExpress, and the list returned is the
\* deduplicated ranking of that sequence: the result is decided by the
\* outcomes of the providers alone.
C28_ResultIndependentOfSettleOrder ==
  SearchProductDone =>
    /\ IsSome(firstSettled)
    /\ products = InDiscoveryOrder
    /\ IF InDiscoveryOrder = <<>>
       THEN Len(Get(response).data) = 1
       ELSE Get(response).data = validateAndDeduplicateProducts(InDiscoveryOrder)

\* AliExpress settled first and SerpAPI, settling later, found two candidates
C28_Witness ==
  /\ SearchProductDone
  /\ firstSettled = Some(4)
  /\ Len(CandidatesOf(1)) = 2
  /\ Len(Get(response).data) >= 1
  /\ Get(response).data = validateAndDeduplicateProducts(CandidatesOf(1))

--------------------------------------------------------------------------
(* C29: the order of the steps of generateLandingPage (under SpecPage) *)

StepOrder ==
  <<"searchProduct", "analyzeImages", "validateProductMatch", "processMedia",
    "generateContent", "generateLandingPageCode", "setupIntegrations", "generateSEOData">>
Invoked(step) == \E i \in 1..Len(calls) : calls[i] = step

\* C29: the steps are invoked in the order search, image analysis,
\* validation, media processing, content generation, code generation,
\* integrations, each at most once; setupIntegrations is invoked only after
\* the search gave a product and content generation gave the content, and not
\* at all on a call that failed in an earlier step.
C29_IntegrationsOnlyAfterEarlierSteps ==
  op = "generateLandingPage" =>
    /\ Len(calls) <= Len(StepOrder)
    /\ \A i \in 1..Len(calls) : calls[i] = StepOrder[i]
    /\ Invoked("setupIntegrations") =>
         /\ IsSome(locals.primaryProduct)
         /\ IsSome(locals.processedMedia)
         /\ IsSome(locals.landingPageContent)
         /\ \A i \in 1..Len(errors) : errors[i] # "Failed to find product data"
    /\ (PageDone /\ ~Get(generationResult).success /\ ~Invoked("setupIntegrations")) =>
         Get(generationResult).integrations = "none"
    /\ (PageDone /\ ~IsSome(locals.landingPageContent)) => ~Invoked("setupIntegrations")

\* code generation threw after content generation succeeded: the call failed
\* and the integrations were not set up
C29_Witness ==
  /\ PageDone
  /\ calls = SubSeq(StepOrder, 1, 6)
  /\ ~Get(generationResult).success
  /\ IsSome(locals.processedMedia)
  /\ ~Invoked("setupIntegrations")

--------------------------------------------------------------------------
(* C30: ApiKeySettings (under SpecSettings) *)

\* C30 as stated: a key whose status is 'saved' has in localStorage the value
\* its input shows.
C30_SavedStatusMeansStoredValueShown ==
  op = "ApiKeySettings" =>
    \A k \in KeyNames :
      getKeyStatus(k) = "saved" =>
        /\ k \in DOMAIN localStorage
        /\ localStorage[k] = apiKeyValues[k]

====
